---- MODULE Spec2Model ----
(***************************************************************************)
(* go-email-verifier: the disposable-domain cache with its refresh loop    *)
(* and the Verify pipeline, in the two forms the repository holds:         *)
(*   impl = "chan"  src/verifier.go: Verify selects between ctx.Done() and *)
(*                  the result channel of a worker goroutine               *)
(*                  (verifyWithTimeout / verifyWithChannel);               *)
(*   impl = "ctx"   src/unnamed/part_002: Verify runs the stages itself    *)
(*                  and hands ctx to the resolver and the dialer.          *)
(* Addresses are sequences of characters; errors are named values, "nil"   *)
(* standing for Go's nil error.                                            *)
(***************************************************************************)
EXTENDS Integers, Sequences, FiniteSets, TLC

VARIABLES
    impl,               \* which Verify is built: "chan" or "ctx"
    phase,              \* the position of the package init(); "run" once over
    disposableDomains,  \* var disposableDomains map[string]struct{} (nil = {})
    mu,                 \* var mu *sync.RWMutex
    refresher,          \* the goroutine running loop(): its position and locals
    call,               \* per call: Verify's frame (arguments, position, result)
    local,              \* per call: the locals of the stage pipeline
    ch,                 \* per call: the result channel made by verifyWithTimeout
    ops,                \* per call: the operations performed so far, in order
    sel,                \* the MX answer under selection and the host chosen
    v,                  \* the verifier object of src/methods.go: ctx and tk
    decoded             \* history: the decoded list the active set was built from

vars == <<impl, sel, v, decoded, phase, disposableDomains, mu, refresher,
          call, local, ch, ops>>

(***************************************************************************)
(* Bounds                                                                  *)
(***************************************************************************)
MaxLen == 3         \* longest input string
MaxList == 2        \* longest decoded domain list
MaxMX == 2          \* most MX records in one answer
NumCalls == 2       \* most Verify calls running side by side

\* The Verify calls of one behaviour; the refresher runs beside them.
Calls == 1..NumCalls
\* the caller of the behaviours that follow one call through every stage
Single == {1}

SeqsUpTo(S, n) == UNION {[1..k -> S] : k \in 0..n}

Chars == {"a", "@"}
Inputs == SeqsUpTo(Chars, MaxLen)

DomainUniverse == {<<"a">>}
DomainLists == SeqsUpTo(DomainUniverse, MaxList)
\* the domains and lists of the behaviours that follow the cache alone
CacheUniverse == {<<"a">>, <<"b">>}
CacheLists == SeqsUpTo(CacheUniverse, MaxList)
\* the lists that name no domain twice
PlainLists == {L \in DomainLists :
                 \A i, j \in 1..Len(L) : L[i] = L[j] => i = j}

Hosts == {"h1", "h2"}
Prefs == {10, 20}
MXRecords == [Host : Hosts, Pref : Prefs]
MXAnswers == SeqsUpTo(MXRecords, MaxMX)

Config == [ValidateMX : BOOLEAN, ValidateSMTP : BOOLEAN,
           ValidateDNS : BOOLEAN, BlockDisposable : BOOLEAN]

CtxStates == {"live", "canceled", "deadline"}

(***************************************************************************)
(* Pure helpers                                                            *)
(***************************************************************************)
Count(s, x) == Cardinality({i \in 1..Len(s) : s[i] = x})

\* strings.LastIndex: the 0-based index of the last x in s, or -1
LastIndex(s, x) ==
    LET I == {i \in 1..Len(s) : s[i] = x}
    IN  IF I = {} THEN -1 ELSE (CHOOSE i \in I : \A j \in I : j <= i) - 1

\* addr-spec: exactly one "@", with a non-empty local part before it and a
\* non-empty domain after it, and no angle bracket
IsAddrSpec(s) ==
    /\ Count(s, "<") = 0 /\ Count(s, ">") = 0
    /\ Count(s, "@") = 1
    /\ LastIndex(s, "@") > 0
    /\ LastIndex(s, "@") < Len(s) - 1

\* net/mail.ParseAddress: a bare addr-spec, or a name-addr, that is an
\* optional display name followed by the addr-spec in angle brackets.
\* Address is the addr-spec alone, without name and brackets.
ParseAddress(input) ==
    LET lt == LastIndex(input, "<") + 1
        angle == /\ Count(input, "<") = 1 /\ Count(input, ">") = 1
                 /\ input[Len(input)] = ">"
                 /\ Count(SubSeq(input, 1, lt - 1), "@") = 0
        spec == IF angle THEN SubSeq(input, lt + 1, Len(input) - 1) ELSE input
    IN  IF IsAddrSpec(spec) THEN [err |-> "nil", Address |-> spec]
                            ELSE [err |-> "parseErr", Address |-> <<>>]

\* The syntax stage: the error it ends with ("nil" when the address passes).
SyntaxErr(input) ==
    LET email == ParseAddress(input)
        i == LastIndex(email.Address, "@")
    IN  IF email.err # "nil" THEN email.err
        ELSE IF i < 0 \/ i = Len(email.Address) - 1 THEN "ErrInvalidSyntax"
        ELSE "nil"

\* domain := email.Address[i+1:]
DomainOf(input) ==
    LET address == ParseAddress(input).Address
        i == LastIndex(address, "@")
    IN  SubSeq(address, i + 2, Len(address))

\* DomainSet with the loop over the list stopping one entry early
DomainSetSkipsLast(domains) == {domains[i] : i \in 1..(Len(domains) - 1)}

\* the map built from the decoded list
DomainSet(domains) == {domains[i] : i \in 1..Len(domains)}

\* ctx.Err()
CtxErr(ctx) ==
    IF ctx = "canceled" THEN "Canceled"
    ELSE IF ctx = "deadline" THEN "DeadlineExceeded"
    ELSE "nil"

(***************************************************************************)
(* State after the program is loaded, before init() has run                *)
(***************************************************************************)
NoCall == [pc |-> "idle", input |-> <<>>,
           conf |-> [ValidateMX |-> FALSE, ValidateSMTP |-> FALSE,
                     ValidateDNS |-> FALSE, BlockDisposable |-> FALSE],
           ctx0 |-> "live", ctx |-> "live", ok |-> FALSE, err |-> "nil"]

NoLocal == [pc |-> "none", domain |-> <<>>, ok |-> FALSE,
            host |-> "", conn |-> FALSE, client |-> FALSE, err |-> "nil"]

NoChan == [buf |-> <<>>, closed |-> FALSE]

NoSel == [records |-> <<>>, host |-> "", done |-> FALSE]

NoVerifier == [ctx |-> "live", tk |-> 0]

Init ==
    /\ impl \in {"chan", "ctx"}
    /\ phase = "init"
    /\ disposableDomains = {}
    /\ mu = [readers |-> {}, writer |-> FALSE, pending |-> FALSE]
    /\ refresher = [pc |-> "off", domains |-> {}, err |-> "nil",
                   list |-> <<>>]
    /\ decoded = <<>>
    /\ call = [c \in Calls |-> NoCall]
    /\ local = [c \in Calls |-> NoLocal]
    /\ ch = [c \in Calls |-> NoChan]
    /\ ops = [c \in Calls |-> <<>>]
    /\ sel = NoSel
    /\ v = NoVerifier

(***************************************************************************)
(* The domain set: fetch, init, loop, refresh                              *)
(***************************************************************************)
\* The results getDisposableDomains can return: (nil, err) when the request,
\* the transport, the body read or the JSON decode fails, else the set built
\* from the decoded list, which is one of `lists`.
getDisposableDomains(lists) ==
    {[domains |-> {}, err |-> "fetchErr", list |-> <<>>]}
        \cup {[domains |-> DomainSet(L), err |-> "nil", list |-> L] :
                 L \in lists}

\* init stopping at a failed fetch: the loop is not started
initStopsOnError ==
    /\ phase = "init"
    /\ \E r \in getDisposableDomains(PlainLists) :
          /\ disposableDomains' = r.domains
          /\ refresher' = [refresher EXCEPT
                 !.pc = IF r.err # "nil" THEN "off" ELSE "wait", !.err = r.err]
          /\ decoded' = r.list
    /\ phase' = "run"
    /\ UNCHANGED <<impl, sel, v, mu, call, local, ch, ops>>

\* init(): the fetch error is dropped, the loop goroutine is started.
initFrom(lists) ==
    /\ phase = "init"
    /\ \E r \in getDisposableDomains(lists) :
          /\ disposableDomains' = r.domains
          /\ refresher' = [refresher EXCEPT !.pc = "wait", !.err = r.err]
          /\ decoded' = r.list
    /\ phase' = "run"
    /\ UNCHANGED <<impl, sel, v, mu, call, local, ch, ops>>

\* init() where the list, if one is decoded, names no domain twice: what the
\* behaviours that follow a call through its stages start from
init == initFrom(PlainLists)

\* init() with every list over two domains, repetitions included
initAnyList == initFrom(CacheLists)

\* loop with refresh() taking the write lock before it fetches
loopLocksFirst ==
    /\ refresher.pc = "wait"
    /\ mu.readers = {}
    /\ mu' = [mu EXCEPT !.writer = TRUE]
    /\ refresher' = [refresher EXCEPT !.pc = "fetch", !.err = "nil"]
    /\ UNCHANGED <<impl, sel, v, decoded, phase, disposableDomains, call, local,
                   ch, ops>>

\* loop(): a tick arrives on tk.C and refresh() is entered.
loop ==
    /\ refresher.pc = "wait"
    /\ refresher' = [refresher EXCEPT !.pc = "fetch", !.err = "nil"]
    /\ UNCHANGED <<impl, sel, v, decoded, phase, disposableDomains, mu, call,
                   local, ch, ops>>

\* refreshFetch installing what a failed fetch returned: the nil map
refreshFetchClears ==
    /\ refresher.pc = "fetch"
    /\ \E r \in getDisposableDomains(PlainLists) :
          /\ refresher' = IF r.err # "nil"
                          THEN [pc |-> "wait", domains |-> {}, err |-> r.err,
                                list |-> <<>>]
                          ELSE [pc |-> "lock", domains |-> r.domains,
                                err |-> "nil", list |-> r.list]
          /\ disposableDomains' = IF r.err # "nil" THEN r.domains
                                                   ELSE disposableDomains
          /\ decoded' = IF r.err # "nil" THEN r.list ELSE decoded
    /\ UNCHANGED <<impl, sel, v, phase, mu, call, local, ch, ops>>

\* refreshFetchFrom with a failed fetch ending the loop: no later tick is served
refreshFetchFromStops(lists) ==
    /\ refresher.pc = "fetch"
    /\ \E r \in getDisposableDomains(lists) :
          refresher' = IF r.err # "nil"
                       THEN [pc |-> "off", domains |-> {}, err |-> r.err,
                             list |-> <<>>]
                       ELSE [pc |-> "lock", domains |-> r.domains,
                             err |-> "nil", list |-> r.list]
    /\ UNCHANGED <<impl, sel, v, decoded, phase, disposableDomains, mu, call,
                   local, ch, ops>>

\* refresh(): the fetch; on an error refresh returns and the loop waits again.
refreshFetchFrom(lists) ==
    /\ refresher.pc = "fetch"
    /\ \E r \in getDisposableDomains(lists) :
          refresher' = IF r.err # "nil"
                       THEN [pc |-> "wait", domains |-> {}, err |-> r.err,
                             list |-> <<>>]
                       ELSE [pc |-> "lock", domains |-> r.domains,
                             err |-> "nil", list |-> r.list]
    /\ UNCHANGED <<impl, sel, v, decoded, phase, disposableDomains, mu, call,
                   local, ch, ops>>

\* refresh() fetching a list that names no domain twice
refreshFetch == refreshFetchFrom(PlainLists)

\* refresh() fetching any list over two domains, repetitions included
refreshFetchAnyList == refreshFetchFrom(CacheLists)

\* mu.Lock(), first half: the writer announces itself; new readers now wait.
refreshLock ==
    /\ refresher.pc = "lock"
    /\ mu' = [mu EXCEPT !.pending = TRUE]
    /\ refresher' = [refresher EXCEPT !.pc = "locking"]
    /\ UNCHANGED <<impl, sel, v, decoded, phase, disposableDomains, call,
                   local, ch, ops>>

\* refreshLocked taking the lock although readers are inside
refreshLockedNoWait ==
    /\ refresher.pc = "locking"
    /\ mu' = [mu EXCEPT !.pending = FALSE, !.writer = TRUE]
    /\ refresher' = [refresher EXCEPT !.pc = "assign"]
    /\ UNCHANGED <<impl, sel, v, decoded, phase, disposableDomains, call,
                   local, ch, ops>>

\* mu.Lock(), second half: the readers have left, the writer holds the lock.
refreshLocked ==
    /\ refresher.pc = "locking"
    /\ mu.readers = {}
    /\ mu' = [mu EXCEPT !.pending = FALSE, !.writer = TRUE]
    /\ refresher' = [refresher EXCEPT !.pc = "assign"]
    /\ UNCHANGED <<impl, sel, v, decoded, phase, disposableDomains, call,
                   local, ch, ops>>

\* refreshAssign adding the fetched entries to the map in use instead of
\* replacing the map
refreshAssignMerges ==
    /\ refresher.pc = "assign"
    /\ disposableDomains' = disposableDomains \cup refresher.domains
    /\ decoded' = refresher.list
    /\ refresher' = [refresher EXCEPT !.pc = "unlock"]
    /\ UNCHANGED <<impl, sel, v, phase, mu, call, local, ch, ops>>

\* disposableDomains = domains
refreshAssign ==
    /\ refresher.pc = "assign"
    /\ disposableDomains' = refresher.domains
    /\ decoded' = refresher.list
    /\ refresher' = [refresher EXCEPT !.pc = "unlock"]
    /\ UNCHANGED <<impl, sel, v, phase, mu, call, local, ch, ops>>

\* mu.Unlock(); refresh returns nil and the loop waits for the next tick.
refreshUnlock ==
    /\ refresher.pc = "unlock"
    /\ mu' = [mu EXCEPT !.writer = FALSE]
    /\ refresher' = [pc |-> "wait", domains |-> {}, err |-> "nil",
                     list |-> <<>>]
    /\ UNCHANGED <<impl, sel, v, decoded, phase, disposableDomains, call,
                   local, ch, ops>>

(***************************************************************************)
(* Stage gating, shared by both forms of Verify                            *)
(***************************************************************************)
StageOrder == <<"parse", "disposable", "ns", "mx", "dial">>

\* StageEnabled with the disposable check run whatever BlockDisposable says
StageEnabledDisposableAlways(stage, conf) ==
    CASE stage = "disposable" -> TRUE
      [] stage = "ns"         -> conf.ValidateDNS
      [] stage = "mx"         -> conf.ValidateMX \/ conf.ValidateSMTP
      [] stage = "dial"       -> conf.ValidateSMTP
      [] OTHER                -> FALSE

\* StageEnabled with the MX lookup tied to ValidateMX alone
StageEnabledMXFlagOnly(stage, conf) ==
    CASE stage = "disposable" -> conf.BlockDisposable
      [] stage = "ns"         -> conf.ValidateDNS
      [] stage = "mx"         -> conf.ValidateMX
      [] stage = "dial"       -> conf.ValidateSMTP
      [] OTHER                -> FALSE

StageEnabled(stage, conf) ==
    CASE stage = "disposable" -> conf.BlockDisposable
      [] stage = "ns"         -> conf.ValidateDNS
      [] stage = "mx"         -> conf.ValidateMX \/ conf.ValidateSMTP
      [] stage = "dial"       -> conf.ValidateSMTP
      [] OTHER                -> FALSE

StageIndex(stage) == CHOOSE i \in 1..Len(StageOrder) : StageOrder[i] = stage

\* StageAfter with the NS lookup left out although ValidateDNS is set
StageAfterSkipDNS(stage, conf) ==
    LET later == {i \in (StageIndex(stage) + 1)..Len(StageOrder) :
                     /\ StageOrder[i] # "ns"
                     /\ StageEnabled(StageOrder[i], conf)}
    IN  IF later = {} THEN "exit"
        ELSE StageOrder[CHOOSE i \in later : \A j \in later : i <= j]

\* StageAfter with the flags ignored: every stage runs
StageAfterUngated(stage, conf) ==
    IF StageIndex(stage) = Len(StageOrder) THEN "exit"
    ELSE StageOrder[StageIndex(stage) + 1]

\* The stage entered after `stage` has passed: the next one whose flag is on,
\* "exit" (the end of the function) when there is none.
StageAfter(stage, conf) ==
    LET later == {i \in (StageIndex(stage) + 1)..Len(StageOrder) :
                     StageEnabled(StageOrder[i], conf)}
    IN  IF later = {} THEN "exit"
        ELSE StageOrder[CHOOSE i \in later : \A j \in later : i <= j]

\* NextPc with a failed stage entered again instead of ending the function
NextPcRetry(stage, err, conf) ==
    IF err # "nil" THEN stage ELSE StageAfter(stage, conf)

\* NextPc with the `return` after a failed stage missing
NextPcNoReturn(stage, err, conf) == StageAfter(stage, conf)

\* `if err != nil { ...; return }`: a failed stage ends the function.
NextPc(stage, err, conf) ==
    IF err # "nil" THEN "exit" ELSE StageAfter(stage, conf)

\* SelectFrom with `>` for `>=`: a later record of equal preference replaces
\* the earlier one
RECURSIVE SelectFromLastWins(_, _, _, _)
SelectFromLastWins(records, k, host, pref) ==
    IF k > Len(records) THEN host
    ELSE IF records[k].Pref > pref
         THEN SelectFromLastWins(records, k + 1, host, pref)
    ELSE SelectFromLastWins(records, k + 1, records[k].Host, records[k].Pref)

\* host, pref := records[0]; a later record replaces them only when its
\* preference is strictly lower.
RECURSIVE SelectFrom(_, _, _, _)
SelectFrom(records, k, host, pref) ==
    IF k > Len(records) THEN host
    ELSE IF records[k].Pref >= pref THEN SelectFrom(records, k + 1, host, pref)
    ELSE SelectFrom(records, k + 1, records[k].Host, records[k].Pref)

SelectHost(records) == SelectFrom(records, 1, records[1].Host, records[1].Pref)

Log(c, op, err) == ops' = [ops EXCEPT ![c] = Append(@, [op |-> op, err |-> err])]

\* The MX lookup is recorded with what the resolver answered: its error and
\* whether the answer held no record.
LogMX(c, err, lookupErr, records) ==
    ops' = [ops EXCEPT ![c] = Append(@, [op |-> "mx", err |-> err,
                                         lookupErr |-> lookupErr,
                                         empty |-> (Len(records) = 0)])]

\* const fromEmail
fromEmail == "user@example.com"

\* client.Mail(fromEmail) is recorded with the sender it was given
LogMail(c, err) ==
    ops' = [ops EXCEPT ![c] = Append(@, [op |-> "mail", err |-> err,
                                         from |-> fromEmail])]

\* client.Rcpt(input) is recorded with the recipient it was given
RcptEntry(c, err) == [op |-> "rcpt", err |-> err, to |-> call[c].input]

LogRcpt(c, err) == ops' = [ops EXCEPT ![c] = Append(@, RcptEntry(c, err))]

(***************************************************************************)
(* src/verifier.go: Verify, verifyWithTimeout, verifyWithChannel           *)
(***************************************************************************)
\* Send on a channel made without a buffer: the send completes only while
\* Verify is at its select to receive
SendUnbuffered(c, err) ==
    /\ call[c].pc = "select"
    /\ Len(ch[c].buf) < 1
    /\ ch' = [ch EXCEPT ![c].buf = Append(@, err)]

\* ch <- err: the channel holds one value, so a send into an empty buffer
\* does not block.
Send(c, err) ==
    /\ Len(ch[c].buf) < 1
    /\ ch' = [ch EXCEPT ![c].buf = Append(@, err)]

\* Hand with the send missing: the worker returns without reporting err
HandNoSend(c, err) == UNCHANGED ch

\* The worker fails with err (sent on ch, then return) or goes on to pc.
Hand(c, err) == IF err # "nil" THEN Send(c, err) ELSE UNCHANGED ch

\* DisposableErr with the `if ok` test missing
DisposableErrNever(ok) == "nil"

\* `if ok { ... ErrDisposableEmail ... }` after the membership test
DisposableErr(ok) == IF ok THEN "ErrDisposableEmail" ELSE "nil"

\* Verify is called; entering its select evaluates verifyWithTimeout, which
\* makes the channel and starts the worker goroutine.
VerifyWith(c, inputs, confs, ctxs) ==
    /\ impl = "chan"
    /\ phase = "run"
    /\ call[c].pc = "idle"
    /\ \E input \in inputs, conf \in confs, ctx \in ctxs :
          call' = [call EXCEPT ![c] = [pc |-> "select", input |-> input,
                                       conf |-> conf, ctx0 |-> ctx, ctx |-> ctx,
                                       ok |-> FALSE, err |-> "nil"]]
    /\ ch' = [ch EXCEPT ![c] = NoChan]
    /\ local' = [local EXCEPT ![c].pc = "parse"]
    /\ UNCHANGED <<impl, sel, v, decoded, phase, disposableDomains, mu,
                   refresher, ops>>

\* Verify with every address, configuration and context state
Verify(c) == VerifyWith(c, Inputs, Config, CtxStates)

\* The caller's context is cancelled or passes its deadline during the call.
ctxDone(c) ==
    /\ call[c].pc \notin {"idle", "returned"}
    /\ call[c].ctx = "live"
    /\ \E ctx \in {"canceled", "deadline"} :
          call' = [call EXCEPT ![c].ctx = ctx]
    /\ UNCHANGED <<impl, sel, v, decoded, phase, disposableDomains, mu,
                   refresher, local, ch, ops>>

\* VerifyResult answering true whatever was received
VerifyResultAlwaysTrue(err) == [ok |-> TRUE, err |-> err]

\* what Verify returns for the value received from the channel
VerifyResult(err) ==
    IF err # "nil" THEN [ok |-> FALSE, err |-> err]
                   ELSE [ok |-> TRUE, err |-> "nil"]

\* VerifySelectDone with the ctx.Done() case missing from the select
VerifySelectNoDone(c) ==
    /\ impl = "chan"
    /\ call[c].pc = "select"
    /\ FALSE
    /\ UNCHANGED vars

\* select, case <-ctx.Done()
VerifySelectDone(c) ==
    /\ impl = "chan"
    /\ call[c].pc = "select"
    /\ call[c].ctx # "live"
    /\ call' = [call EXCEPT ![c].pc = "returned", ![c].ok = FALSE,
                            ![c].err = CtxErr(call[c].ctx)]
    /\ UNCHANGED <<impl, sel, v, decoded, phase, disposableDomains, mu,
                   refresher, local, ch, ops>>

\* select, case err := <-ch: a buffered value, or nil from the closed channel
VerifySelectRecv(c) ==
    /\ impl = "chan"
    /\ call[c].pc = "select"
    /\ ch[c].buf # <<>> \/ ch[c].closed
    /\ LET err == IF ch[c].buf # <<>> THEN Head(ch[c].buf) ELSE "nil"
           r == VerifyResult(err)
       IN  /\ call' = [call EXCEPT ![c].pc = "returned", ![c].ok = r.ok,
                                   ![c].err = r.err]
           /\ ch' = [ch EXCEPT ![c].buf = IF @ # <<>> THEN Tail(@) ELSE @]
    /\ UNCHANGED <<impl, sel, v, decoded, phase, disposableDomains, mu,
                   refresher, local, ops>>

\* mail.ParseAddress, the LastIndex test and the domain
workerParse(c) ==
    /\ impl = "chan"
    /\ local[c].pc = "parse"
    /\ LET err == SyntaxErr(call[c].input)
       IN  /\ Log(c, "parse", err)
           /\ Hand(c, err)
           /\ local' = [local EXCEPT
                  ![c].pc = NextPc("parse", err, call[c].conf),
                  ![c].domain = IF err = "nil" THEN DomainOf(call[c].input) ELSE <<>>]
    /\ UNCHANGED <<impl, sel, v, decoded, phase, disposableDomains, mu,
                   refresher, call>>

\* workerRLock entering although a writer holds or has requested the lock
workerRLockIgnoresWriter(c) ==
    /\ impl = "chan"
    /\ local[c].pc = "disposable"
    /\ mu' = [mu EXCEPT !.readers = @ \cup {c}]
    /\ local' = [local EXCEPT ![c].pc = "read"]
    /\ UNCHANGED <<impl, sel, v, decoded, phase, disposableDomains, refresher,
                   call, ch, ops>>

\* mu.RLock(): waits while a writer holds or has requested the lock
workerRLock(c) ==
    /\ impl = "chan"
    /\ local[c].pc = "disposable"
    /\ ~mu.writer /\ ~mu.pending
    /\ mu' = [mu EXCEPT !.readers = @ \cup {c}]
    /\ local' = [local EXCEPT ![c].pc = "read"]
    /\ UNCHANGED <<impl, sel, v, decoded, phase, disposableDomains, refresher,
                   call, ch, ops>>

\* _, ok := disposableDomains[domain]
workerRead(c) ==
    /\ impl = "chan"
    /\ local[c].pc = "read"
    /\ LET ok == local[c].domain \in disposableDomains
       IN  /\ local' = [local EXCEPT ![c].pc = "runlock", ![c].ok = ok]
           /\ Log(c, "cache", IF ok THEN "ErrDisposableEmail" ELSE "nil")
    /\ UNCHANGED <<impl, sel, v, decoded, phase, disposableDomains, mu,
                   refresher, call, ch>>

\* mu.RUnlock(), then `if ok`
workerRUnlock(c) ==
    /\ impl = "chan"
    /\ local[c].pc = "runlock"
    /\ mu' = [mu EXCEPT !.readers = @ \ {c}]
    /\ LET err == DisposableErr(local[c].ok)
       IN  /\ Hand(c, err)
           /\ local' = [local EXCEPT
                  ![c].pc = NextPc("disposable", err, call[c].conf)]
    /\ UNCHANGED <<impl, sel, v, decoded, phase, disposableDomains, refresher,
                   call, ops>>

\* net.LookupNS(domain)
workerLookupNS(c) ==
    /\ impl = "chan"
    /\ local[c].pc = "ns"
    /\ \E err \in {"nil", "nsErr"} :
          /\ Log(c, "ns", err)
          /\ Hand(c, err)
          /\ local' = [local EXCEPT ![c].pc = NextPc("ns", err, call[c].conf)]
    /\ UNCHANGED <<impl, sel, v, decoded, phase, disposableDomains, mu,
                   refresher, call>>

\* MXErr with `<= 1` for `< 1`: a single record counts as none
MXErrOffByOne(lookupErr, records) ==
    IF lookupErr # "nil" THEN lookupErr
    ELSE IF Len(records) <= 1 THEN "ErrNoMXRecords"
    ELSE "nil"

\* MXErr reporting a failed lookup by the sentinel instead of its own error
MXErrSentinel(lookupErr, records) ==
    IF lookupErr # "nil" \/ Len(records) < 1 THEN "ErrNoMXRecords" ELSE "nil"

\* the error of the MX stage for the answer of the lookup
MXErr(lookupErr, records) ==
    IF lookupErr # "nil" THEN lookupErr
    ELSE IF Len(records) < 1 THEN "ErrNoMXRecords"
    ELSE "nil"

\* net.LookupMX(domain), the record count and, for the probe, the host
workerLookupMX(c) ==
    /\ impl = "chan"
    /\ local[c].pc = "mx"
    /\ \E lookupErr \in {"nil", "mxErr"}, answer \in MXAnswers :
          LET records == IF lookupErr = "nil" THEN answer ELSE <<>>
              err == MXErr(lookupErr, records)
              next == NextPc("mx", err, call[c].conf)
          IN  /\ lookupErr # "nil" => answer = <<>>
              /\ LogMX(c, err, lookupErr, records)
              /\ Hand(c, err)
              /\ local' = [local EXCEPT
                     ![c].pc = next,
                     ![c].host = IF next = "dial" THEN SelectHost(records) ELSE ""]
    /\ UNCHANGED <<impl, sel, v, decoded, phase, disposableDomains, mu,
                   refresher, call>>

\* smtp.Dial(addr)
workerDial(c) ==
    /\ impl = "chan"
    /\ local[c].pc = "dial"
    /\ \E err \in {"nil", "dialErr"} :
          /\ Log(c, "dial", err)
          /\ Hand(c, err)
          /\ local' = [local EXCEPT
                 ![c].pc = IF err # "nil" THEN "exit" ELSE "mail",
                 ![c].client = (err = "nil")]
    /\ UNCHANGED <<impl, sel, v, decoded, phase, disposableDomains, mu,
                   refresher, call>>

\* client.Mail(fromEmail)
workerMail(c) ==
    /\ impl = "chan"
    /\ local[c].pc = "mail"
    /\ \E err \in {"nil", "mailErr"} :
          /\ LogMail(c, err)
          /\ Hand(c, err)
          /\ local' = [local EXCEPT ![c].pc = IF err # "nil" THEN "exit" ELSE "rcpt"]
    /\ UNCHANGED <<impl, sel, v, decoded, phase, disposableDomains, mu,
                   refresher, call>>

\* client.Rcpt(input)
workerRcpt(c) ==
    /\ impl = "chan"
    /\ local[c].pc = "rcpt"
    /\ \E err \in {"nil", "rcptErr"} :
          /\ LogRcpt(c, err)
          /\ Hand(c, err)
          /\ local' = [local EXCEPT ![c].pc = "exit"]
    /\ UNCHANGED <<impl, sel, v, decoded, phase, disposableDomains, mu,
                   refresher, call>>

\* the worker returns: the deferred client.Close() and close(ch) run
workerExit(c) ==
    /\ impl = "chan"
    /\ local[c].pc = "exit"
    /\ IF local[c].client THEN Log(c, "close", "nil") ELSE UNCHANGED ops
    /\ local' = [local EXCEPT ![c].pc = "done", ![c].client = FALSE]
    /\ ch' = [ch EXCEPT ![c].closed = TRUE]
    /\ UNCHANGED <<impl, sel, v, decoded, phase, disposableDomains, mu,
                   refresher, call>>

(***************************************************************************)
(* src/unnamed/part_002: Verify runs the stages in the caller's goroutine  *)
(***************************************************************************)
\* The errors an operation that is handed ctx can end with: it is aborted
\* when ctx is done.
CtxOutcomes(ctx, err) == IF ctx # "live" THEN {err} ELSE {"nil", err}

\* The errors a read or write on conn can end with: conn carries the
\* deadline of ctx (or now + timeout when ctx has none), so I/O fails once
\* that deadline has passed; a cancellation alone does not reach conn.
ConnOutcomes(ctx, err) == IF ctx = "deadline" THEN {err} ELSE {"nil", err}

\* `return false, err` before the dial, or `return true, nil` at the end
Return(c, err) ==
    call' = [call EXCEPT ![c].pc = "returned", ![c].ok = (err = "nil"),
                         ![c].err = err]

\* A stage outside the SMTP session ends: Verify returns on an error or
\* when no stage is left, else it enters stage `next`.
Continue(c, err, next) ==
    IF err # "nil" \/ next = "exit"
    THEN /\ Return(c, err)
         /\ local' = [local EXCEPT ![c].pc = "done"]
    ELSE /\ local' = [local EXCEPT ![c].pc = next]
         /\ UNCHANGED call

\* Verify is called
ctxVerifyWith(c, inputs, confs, ctxs) ==
    /\ impl = "ctx"
    /\ phase = "run"
    /\ call[c].pc = "idle"
    /\ \E input \in inputs, conf \in confs, ctx \in ctxs :
          call' = [call EXCEPT ![c] = [pc |-> "running", input |-> input,
                                       conf |-> conf, ctx0 |-> ctx, ctx |-> ctx,
                                       ok |-> FALSE, err |-> "nil"]]
    /\ local' = [local EXCEPT ![c].pc = "parse"]
    /\ UNCHANGED <<impl, sel, v, decoded, phase, disposableDomains, mu,
                   refresher, ch, ops>>

\* Verify with every address, configuration and context state
ctxVerify(c) == ctxVerifyWith(c, Inputs, Config, CtxStates)

\* mail.ParseAddress, the LastIndex test and the domain
ctxParse(c) ==
    /\ impl = "ctx"
    /\ local[c].pc = "parse"
    /\ LET err == SyntaxErr(call[c].input)
           next == NextPc("parse", err, call[c].conf)
       IN  /\ Log(c, "parse", err)
           /\ IF err # "nil" \/ next = "exit"
              THEN /\ Return(c, err)
                   /\ local' = [local EXCEPT ![c].pc = "done"]
              ELSE /\ local' = [local EXCEPT ![c].pc = next,
                                  ![c].domain = DomainOf(call[c].input)]
                   /\ UNCHANGED call
    /\ UNCHANGED <<impl, sel, v, decoded, phase, disposableDomains, mu,
                   refresher, ch>>

\* ctxRLock entering although a writer has requested the lock
ctxRLockPassesWriter(c) ==
    /\ impl = "ctx"
    /\ local[c].pc = "disposable"
    /\ ~mu.writer
    /\ mu' = [mu EXCEPT !.readers = @ \cup {c}]
    /\ local' = [local EXCEPT ![c].pc = "read"]
    /\ UNCHANGED <<impl, sel, v, decoded, phase, disposableDomains, refresher,
                   call, ch, ops>>

\* mu.RLock()
ctxRLock(c) ==
    /\ impl = "ctx"
    /\ local[c].pc = "disposable"
    /\ ~mu.writer /\ ~mu.pending
    /\ mu' = [mu EXCEPT !.readers = @ \cup {c}]
    /\ local' = [local EXCEPT ![c].pc = "read"]
    /\ UNCHANGED <<impl, sel, v, decoded, phase, disposableDomains, refresher,
                   call, ch, ops>>

\* _, ok := disposableDomains[domain]
ctxRead(c) ==
    /\ impl = "ctx"
    /\ local[c].pc = "read"
    /\ LET ok == local[c].domain \in disposableDomains
       IN  /\ local' = [local EXCEPT ![c].pc = "runlock", ![c].ok = ok]
           /\ Log(c, "cache", IF ok THEN "ErrDisposableEmail" ELSE "nil")
    /\ UNCHANGED <<impl, sel, v, decoded, phase, disposableDomains, mu,
                   refresher, call, ch>>

\* mu.RUnlock(), then `if ok`
ctxRUnlock(c) ==
    /\ impl = "ctx"
    /\ local[c].pc = "runlock"
    /\ mu' = [mu EXCEPT !.readers = @ \ {c}]
    /\ LET err == DisposableErr(local[c].ok)
       IN  Continue(c, err, NextPc("disposable", err, call[c].conf))
    /\ UNCHANGED <<impl, sel, v, decoded, phase, disposableDomains, refresher,
                   ch, ops>>

\* resolver.LookupNS(ctx, domain)
ctxLookupNS(c) ==
    /\ impl = "ctx"
    /\ local[c].pc = "ns"
    /\ \E err \in CtxOutcomes(call[c].ctx, "nsErr") :
          /\ Log(c, "ns", err)
          /\ Continue(c, err, NextPc("ns", err, call[c].conf))
    /\ UNCHANGED <<impl, sel, v, decoded, phase, disposableDomains, mu,
                   refresher, ch>>

\* resolver.LookupMX(ctx, domain), the record count and, for the probe, the host
ctxLookupMX(c) ==
    /\ impl = "ctx"
    /\ local[c].pc = "mx"
    /\ \E lookupErr \in CtxOutcomes(call[c].ctx, "mxErr"), answer \in MXAnswers :
          LET records == IF lookupErr = "nil" THEN answer ELSE <<>>
              err == MXErr(lookupErr, records)
              next == NextPc("mx", err, call[c].conf)
          IN  /\ lookupErr # "nil" => answer = <<>>
              /\ LogMX(c, err, lookupErr, records)
              /\ IF err # "nil" \/ next = "exit"
                 THEN /\ Return(c, err)
                      /\ local' = [local EXCEPT ![c].pc = "done"]
                 ELSE /\ local' = [local EXCEPT ![c].pc = next,
                                     ![c].host = SelectHost(records)]
                      /\ UNCHANGED call
    /\ UNCHANGED <<impl, sel, v, decoded, phase, disposableDomains, mu,
                   refresher, ch>>

\* dialer.DialContext(ctx, "tcp", addr); defer conn.Close()
ctxDial(c) ==
    /\ impl = "ctx"
    /\ local[c].pc = "dial"
    /\ \E err \in CtxOutcomes(call[c].ctx, "dialErr") :
          /\ Log(c, "dial", err)
          /\ IF err # "nil"
             THEN /\ Return(c, err)
                  /\ local' = [local EXCEPT ![c].pc = "done"]
             ELSE /\ local' = [local EXCEPT ![c].pc = "setdeadline",
                                 ![c].conn = TRUE]
                  /\ UNCHANGED call
    /\ UNCHANGED <<impl, sel, v, decoded, phase, disposableDomains, mu,
                   refresher, ch>>

\* Inside the session an error is kept until the deferred calls have run.
Session(c, err, next) ==
    local' = [local EXCEPT ![c].pc = IF err # "nil" THEN "defer" ELSE next,
                           ![c].err = err]

\* conn.SetDeadline(deadline)
ctxSetDeadline(c) ==
    /\ impl = "ctx"
    /\ local[c].pc = "setdeadline"
    /\ \E err \in {"nil", "setDeadlineErr"} :
          /\ Log(c, "setdeadline", err)
          /\ Session(c, err, "newclient")
    /\ UNCHANGED <<impl, sel, v, decoded, phase, disposableDomains, mu,
                   refresher, call, ch>>

\* smtp.NewClient(conn, host): reads the greeting; defer Quit / Close
ctxNewClient(c) ==
    /\ impl = "ctx"
    /\ local[c].pc = "newclient"
    /\ \E err \in ConnOutcomes(call[c].ctx, "newClientErr") :
          /\ Log(c, "newclient", err)
          /\ local' = [local EXCEPT
                 ![c].pc = IF err # "nil" THEN "defer" ELSE "mail",
                 ![c].err = err,
                 ![c].client = (err = "nil")]
    /\ UNCHANGED <<impl, sel, v, decoded, phase, disposableDomains, mu,
                   refresher, call, ch>>

\* client.Mail(fromEmail)
ctxMail(c) ==
    /\ impl = "ctx"
    /\ local[c].pc = "mail"
    /\ \E err \in ConnOutcomes(call[c].ctx, "mailErr") :
          /\ LogMail(c, err)
          /\ Session(c, err, "rcpt")
    /\ UNCHANGED <<impl, sel, v, decoded, phase, disposableDomains, mu,
                   refresher, call, ch>>

\* client.Rcpt(input)
ctxRcpt(c) ==
    /\ impl = "ctx"
    /\ local[c].pc = "rcpt"
    /\ \E err \in ConnOutcomes(call[c].ctx, "rcptErr") :
          /\ LogRcpt(c, err)
          /\ Session(c, err, "defer")
    /\ UNCHANGED <<impl, sel, v, decoded, phase, disposableDomains, mu,
                   refresher, call, ch>>

\* ctxReturn with QUIT sent only after a transaction that succeeded: on a
\* failed MAIL or RCPT the client is left as it is
ctxReturnQuitOnSuccess(c) ==
    /\ impl = "ctx"
    /\ local[c].pc = "defer"
    /\ \E quitErr \in ConnOutcomes(call[c].ctx, "quitErr") :
          LET quit == IF ~local[c].client \/ local[c].err # "nil" THEN <<>>
                      ELSE IF quitErr = "nil"
                           THEN <<[op |-> "quit", err |-> "nil"]>>
                           ELSE <<[op |-> "quit", err |-> quitErr],
                                  [op |-> "close", err |-> "nil"]>>
          IN  /\ ~local[c].client => quitErr = "quitErr"
              /\ ops' = [ops EXCEPT ![c] =
                            @ \o quit \o <<[op |-> "connclose", err |-> "nil"]>>]
    /\ Return(c, local[c].err)
    /\ local' = [local EXCEPT ![c].pc = "done", ![c].client = FALSE,
                              ![c].conn = FALSE]
    /\ UNCHANGED <<impl, sel, v, decoded, phase, disposableDomains, mu,
                   refresher, ch>>

\* Verify returns from inside the session: the deferred client.Quit() (with
\* client.Close() when it fails) and conn.Close() run, last deferred first.
ctxReturn(c) ==
    /\ impl = "ctx"
    /\ local[c].pc = "defer"
    /\ \E quitErr \in ConnOutcomes(call[c].ctx, "quitErr") :
          LET quit == IF ~local[c].client THEN <<>>
                      ELSE IF quitErr = "nil"
                           THEN <<[op |-> "quit", err |-> "nil"]>>
                           ELSE <<[op |-> "quit", err |-> quitErr],
                                  [op |-> "close", err |-> "nil"]>>
          IN  /\ ~local[c].client => quitErr = "quitErr"
              /\ ops' = [ops EXCEPT ![c] =
                            @ \o quit \o <<[op |-> "connclose", err |-> "nil"]>>]
    /\ Return(c, local[c].err)
    /\ local' = [local EXCEPT ![c].pc = "done", ![c].client = FALSE,
                              ![c].conn = FALSE]
    /\ UNCHANGED <<impl, sel, v, decoded, phase, disposableDomains, mu,
                   refresher, ch>>

Next ==
    \/ init
    \/ loop
    \/ refreshFetch
    \/ refreshLock
    \/ refreshLocked
    \/ refreshAssign
    \/ refreshUnlock
    \/ \E c \in Single : Verify(c)
    \/ \E c \in Single : ctxDone(c)
    \/ \E c \in Single : VerifySelectDone(c)
    \/ \E c \in Single : VerifySelectRecv(c)
    \/ \E c \in Single : workerParse(c)
    \/ \E c \in Single : workerRLock(c)
    \/ \E c \in Single : workerRead(c)
    \/ \E c \in Single : workerRUnlock(c)
    \/ \E c \in Single : workerLookupNS(c)
    \/ \E c \in Single : workerLookupMX(c)
    \/ \E c \in Single : workerDial(c)
    \/ \E c \in Single : workerMail(c)
    \/ \E c \in Single : workerRcpt(c)
    \/ \E c \in Single : workerExit(c)
    \/ \E c \in Single : ctxVerify(c)
    \/ \E c \in Single : ctxParse(c)
    \/ \E c \in Single : ctxRLock(c)
    \/ \E c \in Single : ctxRead(c)
    \/ \E c \in Single : ctxRUnlock(c)
    \/ \E c \in Single : ctxLookupNS(c)
    \/ \E c \in Single : ctxLookupMX(c)
    \/ \E c \in Single : ctxDial(c)
    \/ \E c \in Single : ctxSetDeadline(c)
    \/ \E c \in Single : ctxNewClient(c)
    \/ \E c \in Single : ctxMail(c)
    \/ \E c \in Single : ctxRcpt(c)
    \/ \E c \in Single : ctxReturn(c)

Spec == Init /\ [][Next]_vars

(***************************************************************************)
(* Vocabulary of the properties                                            *)
(***************************************************************************)
Returned(c) == call[c].pc = "returned"
Called(c) == call[c].pc # "idle"

OpNames(c) == {ops[c][i].op : i \in 1..Len(ops[c])}
Did(c, op) == op \in OpNames(c)
Passed(c, op) ==
    \E i \in 1..Len(ops[c]) : ops[c][i].op = op /\ ops[c][i].err = "nil"

\* the membership test found the domain / did not find it
Hit(c) == \E i \in 1..Len(ops[c]) :
              ops[c][i].op = "cache" /\ ops[c][i].err = "ErrDisposableEmail"
Miss(c) == Passed(c, "cache")

\* operations that go to the network
NetOps == {"ns", "mx", "dial", "newclient", "mail", "rcpt", "quit"}
\* operations that only release what the session acquired
Cleanup == {"quit", "close", "connclose"}

IsStageOp(e) == e.op \notin Cleanup
StageOps(c) == SelectSeq(ops[c], IsStageOp)

Rank(op) ==
    CASE op = "parse" -> 1
      [] op = "cache" -> 2
      [] op = "ns" -> 3
      [] op = "mx" -> 4
      [] op = "dial" -> 5
      [] op = "setdeadline" -> 6
      [] op = "newclient" -> 7
      [] op = "mail" -> 8
      [] op = "rcpt" -> 9
      [] OTHER -> 10

\* the error of the stage that failed, "nil" while none has
Failure(c) ==
    LET p == StageOps(c)
    IN  IF p # <<>> /\ p[Len(p)].err # "nil" THEN p[Len(p)].err ELSE "nil"

InOrder(c) ==
    LET p == StageOps(c)
    IN  \A i, j \in 1..Len(p) : i < j => Rank(p[i].op) < Rank(p[j].op)

NothingAfterFailure(c) ==
    LET p == StageOps(c)
    IN  \A i \in 1..Len(p) : i < Len(p) => p[i].err = "nil"

\* Verify of src/verifier.go came back through the ctx.Done() case
ReturnedCtxErr(c) ==
    /\ impl = "chan"
    /\ call[c].ctx # "live"
    /\ ~call[c].ok
    /\ call[c].err = CtxErr(call[c].ctx)

AllFlags(conf) ==
    conf.ValidateMX /\ conf.ValidateSMTP /\ conf.ValidateDNS /\ conf.BlockDisposable
NoFlags(conf) ==
    ~conf.ValidateMX /\ ~conf.ValidateSMTP /\ ~conf.ValidateDNS /\ ~conf.BlockDisposable

\* While the read lock is held the recorded answer of the membership test
\* is the membership of the domain in the active set.
AnswerIsMembership(c) ==
    local[c].pc = "runlock" =>
        (Hit(c) <=> DomainOf(call[c].input) \in disposableDomains)

(***************************************************************************)
(* C1: Verify returns (true, nil) or (false, non-nil error), nothing else, *)
(* for every address, configuration, context state and network outcome.    *)
(***************************************************************************)
C1_TrueOrError ==
    \A c \in Calls : Returned(c) =>
        \/ call[c].ok /\ call[c].err = "nil"
        \/ ~call[c].ok /\ call[c].err # "nil"

C1_Witness ==
    \E c \in Calls : Returned(c) /\ ~call[c].ok /\ call[c].err = "rcptErr"

(***************************************************************************)
(* C2: with a context that is not done during the call, Verify returns     *)
(* (true, nil) exactly when the address passes the syntax stage and every  *)
(* enabled stage succeeds (cache miss, NS lookup, MX lookup with a record, *)
(* dial, MAIL FROM, RCPT TO); a stage whose flag is off is not run and so  *)
(* has no part in the result.                                              *)
(***************************************************************************)
EnabledStagesPassed(c) ==
    LET conf == call[c].conf
    IN  /\ Passed(c, "parse")
        /\ conf.BlockDisposable => Miss(c)
        /\ conf.ValidateDNS => Passed(c, "ns")
        /\ (conf.ValidateMX \/ conf.ValidateSMTP) => Passed(c, "mx")
        /\ conf.ValidateSMTP =>
              Passed(c, "dial") /\ Passed(c, "mail") /\ Passed(c, "rcpt")

DisabledStagesNotRun(c) ==
    LET conf == call[c].conf
    IN  /\ ~conf.BlockDisposable => ~Did(c, "cache")
        /\ ~conf.ValidateDNS => ~Did(c, "ns")
        /\ ~(conf.ValidateMX \/ conf.ValidateSMTP) => ~Did(c, "mx")
        /\ ~conf.ValidateSMTP => OpNames(c) \cap {"dial", "mail", "rcpt"} = {}

C2_TrueIffEnabledStagesPass ==
    \A c \in Calls :
        /\ DisabledStagesNotRun(c)
        /\ Returned(c) /\ call[c].ctx = "live" =>
              ((call[c].ok /\ call[c].err = "nil") <=> EnabledStagesPassed(c))

C2_Witness ==
    \E c \in Calls :
        /\ Returned(c) /\ call[c].ctx = "live" /\ call[c].ok
        /\ call[c].conf.ValidateSMTP /\ call[c].conf.ValidateDNS
        /\ call[c].conf.BlockDisposable /\ ~call[c].conf.ValidateMX
        /\ Passed(c, "mx") /\ Passed(c, "rcpt")

(***************************************************************************)
(* C3: the stages of one call run in the order syntax, disposable check,   *)
(* NS lookup, MX lookup, SMTP probe, and after a failed stage no later     *)
(* stage operation is performed.  As stated, the error Verify returns is   *)
(* always the error of the failed stage: C3_ErrorOfFirstFailure.  Amended: *)
(* that, or ctx.Err() when the Verify of src/verifier.go takes the         *)
(* ctx.Done() case of its select: C3_OrderAndFirstFailure.                 *)
(***************************************************************************)
C3_ErrorOfFirstFailure ==
    \A c \in Calls :
        /\ InOrder(c)
        /\ NothingAfterFailure(c)
        /\ Returned(c) /\ Failure(c) # "nil" => call[c].err = Failure(c)

C3_OrderAndFirstFailure ==
    \A c \in Calls :
        /\ InOrder(c)
        /\ NothingAfterFailure(c)
        /\ Returned(c) /\ Failure(c) # "nil" =>
              call[c].err = Failure(c) \/ ReturnedCtxErr(c)
        /\ Returned(c) /\ ~call[c].ok /\ ~ReturnedCtxErr(c) =>
              call[c].err = Failure(c)

C3_Witness ==
    \E c \in Calls :
        /\ Returned(c) /\ call[c].err = "ErrNoMXRecords"
        /\ Failure(c) = "ErrNoMXRecords"
        /\ call[c].conf.ValidateSMTP /\ call[c].conf.ValidateDNS
        /\ local[c].pc = "done"

(***************************************************************************)
(* C4: when the context is already done at the call, Verify returns        *)
(* (false, ctx.Err()) for every address and configuration, whatever the    *)
(* worker's scheduling and the choice of the select.                       *)
(***************************************************************************)
C4_DoneContextReturnsCtxErr ==
    \A c \in Calls : Returned(c) /\ call[c].ctx0 # "live" =>
        ~call[c].ok /\ call[c].err = CtxErr(call[c].ctx0)

(***************************************************************************)
(* C5: when the context is already done at the call, no stage is           *)
(* performed, before or after Verify returns: no parse, no cache read, no  *)
(* lookup, no dial, no SMTP command.                                       *)
(***************************************************************************)
C5_DoneContextRunsNoStage ==
    \A c \in Calls : Called(c) /\ call[c].ctx0 # "live" => ops[c] = <<>>

(***************************************************************************)
(* C6: every address that fails parsing or has an empty domain makes       *)
(* Verify return false with the sentinel ErrInvalidSyntax, under every     *)
(* configuration (read here for a context that stays live, so that no      *)
(* cancellation stands between the syntax stage and the result).           *)
(***************************************************************************)
C6_SyntaxFailureIsErrInvalidSyntax ==
    \A c \in Calls :
        Returned(c) /\ call[c].ctx = "live" /\ SyntaxErr(call[c].input) # "nil" =>
            ~call[c].ok /\ call[c].err = "ErrInvalidSyntax"

(***************************************************************************)
(* C7: an address that fails the syntax stage makes Verify return false    *)
(* with a non-nil error under every configuration, and the call reads the  *)
(* cache never and performs no network operation.                          *)
(***************************************************************************)
C7_SyntaxFailureStopsPipeline ==
    \A c \in Calls : Called(c) /\ SyntaxErr(call[c].input) # "nil" =>
        /\ Returned(c) => ~call[c].ok /\ call[c].err # "nil"
        /\ OpNames(c) \subseteq {"parse"}
        /\ c \notin mu.readers

C7_Witness ==
    \E c \in Calls :
        /\ Returned(c) /\ local[c].pc = "done"
        /\ SyntaxErr(call[c].input) # "nil"
        /\ AllFlags(call[c].conf)
        /\ call[c].err = "parseErr"

(***************************************************************************)
(* C8: a valid address whose domain is in the cache at the lookup, with    *)
(* BlockDisposable set, issues no NS lookup, MX lookup, dial or SMTP       *)
(* command.  As stated, Verify then always returns                         *)
(* (false, ErrDisposableEmail): C8_HitReturnsDisposable.  Amended: that,   *)
(* or (false, ctx.Err()) when the Verify of src/verifier.go takes the      *)
(* ctx.Done() case of its select: C8_HitStopsPipeline.                     *)
(***************************************************************************)
C8_HitReturnsDisposable ==
    \A c \in Calls :
        /\ AnswerIsMembership(c)
        /\ Hit(c) =>
              /\ OpNames(c) \cap NetOps = {}
              /\ Returned(c) => ~call[c].ok /\ call[c].err = "ErrDisposableEmail"

C8_HitStopsPipeline ==
    \A c \in Calls :
        /\ AnswerIsMembership(c)
        /\ Hit(c) =>
              /\ call[c].conf.BlockDisposable
              /\ OpNames(c) \cap NetOps = {}
              /\ Returned(c) =>
                    \/ ~call[c].ok /\ call[c].err = "ErrDisposableEmail"
                    \/ ReturnedCtxErr(c)

C8_Witness ==
    \E c \in Calls :
        /\ Hit(c) /\ Returned(c) /\ local[c].pc = "done"
        /\ call[c].err = "ErrDisposableEmail"
        /\ AllFlags(call[c].conf)

(***************************************************************************)
(* C9: Verify returns ErrDisposableEmail only with BlockDisposable set and *)
(* the domain found in the cache at the lookup; with the flag off the      *)
(* cache is not consulted; with the flag on and the domain absent the      *)
(* stage gives no error and the pipeline goes on with the next enabled     *)
(* stage.                                                                  *)
(***************************************************************************)
AfterDisposable(conf) ==
    IF conf.ValidateDNS THEN "ns"
    ELSE IF conf.ValidateMX \/ conf.ValidateSMTP THEN "mx"
    ELSE "exit"

C9_DisposableOnlyOnHit ==
    \A c \in Calls :
        /\ AnswerIsMembership(c)
        /\ call[c].err = "ErrDisposableEmail" =>
              call[c].conf.BlockDisposable /\ Hit(c)
        /\ ~call[c].conf.BlockDisposable =>
              ~Did(c, "cache") /\ c \notin mu.readers
        /\ Miss(c) /\ local[c].pc # "runlock" =>
              LET next == AfterDisposable(call[c].conf)
                  p == StageOps(c)
              IN  IF next = "exit"
                  THEN /\ p[Len(p)].op = "cache"
                       /\ Returned(c) /\ call[c].ctx = "live" => call[c].ok
                  ELSE local[c].pc = next \/ Did(c, next)

C9_Witness ==
    \E c \in Calls :
        /\ call[c].conf.BlockDisposable /\ Miss(c)
        /\ disposableDomains # {}
        /\ Passed(c, "ns")
        /\ Returned(c) /\ call[c].ok

(***************************************************************************)
(* C10: with all four flags off and a context that is not done, Verify on  *)
(* a syntactically valid address returns (true, nil), reads the cache      *)
(* never and performs no network operation, whatever the cache holds.      *)
(***************************************************************************)
C10_NoFlagsSyntaxOnly ==
    \A c \in Calls :
        Called(c) /\ NoFlags(call[c].conf) /\ SyntaxErr(call[c].input) = "nil" =>
            /\ Returned(c) /\ call[c].ctx = "live" =>
                  call[c].ok /\ call[c].err = "nil"
            /\ OpNames(c) \subseteq {"parse"}
            /\ c \notin mu.readers

C10_Witness ==
    \E c \in Calls :
        /\ Returned(c) /\ call[c].ctx = "live" /\ call[c].ok
        /\ NoFlags(call[c].conf)
        /\ DomainOf(call[c].input) \in disposableDomains
        /\ ops[c] = <<[op |-> "parse", err |-> "nil"]>>

(***************************************************************************)
(* Calls side by side: NumCalls Verify calls that run the disposable stage *)
(* only, next to init and the refresh loop                                 *)
(***************************************************************************)
ConcInputs == {<<"a", "@", "a">>}
ConcConfigs == {conf \in Config : /\ conf.BlockDisposable
                                  /\ ~conf.ValidateDNS
                                  /\ ~conf.ValidateMX
                                  /\ ~conf.ValidateSMTP}

ConcVerify(c) == VerifyWith(c, ConcInputs, ConcConfigs, {"live"})
ctxConcVerify(c) == ctxVerifyWith(c, ConcInputs, ConcConfigs, {"live"})

NextConc ==
    \/ init
    \/ loop
    \/ refreshFetch
    \/ refreshLock
    \/ refreshLocked
    \/ refreshAssign
    \/ refreshUnlock
    \/ \E c \in Calls : ConcVerify(c)
    \/ \E c \in Calls : VerifySelectRecv(c)
    \/ \E c \in Calls : workerParse(c)
    \/ \E c \in Calls : workerRLock(c)
    \/ \E c \in Calls : workerRead(c)
    \/ \E c \in Calls : workerRUnlock(c)
    \/ \E c \in Calls : workerExit(c)
    \/ \E c \in Calls : ctxConcVerify(c)
    \/ \E c \in Calls : ctxParse(c)
    \/ \E c \in Calls : ctxRLock(c)
    \/ \E c \in Calls : ctxRead(c)
    \/ \E c \in Calls : ctxRUnlock(c)

SpecConc == Init /\ [][NextConc]_vars

\* call c is between its RLock and its RUnlock
InReadSection(c) == local[c].pc \in {"read", "runlock"}

(***************************************************************************)
(* C11: a refresh replaces the active set in one step as seen by readers:  *)
(* with any number of calls testing membership at once, the set does not   *)
(* change while a call is inside its read section, a call is inside only   *)
(* while no writer is, and so the answer of every test is the membership   *)
(* of its domain in one complete set, the one active throughout the test.  *)
(***************************************************************************)
C11_ReadSeesOneSet ==
    /\ [](\A c \in Calls :
            /\ InReadSection(c) <=> c \in mu.readers
            /\ InReadSection(c) => ~mu.writer
            /\ local[c].pc = "runlock" =>
                  (local[c].ok <=> local[c].domain \in disposableDomains))
    /\ [][disposableDomains' # disposableDomains => mu.readers = {}]_vars

\* two calls are inside their read sections while a refresh that brings a
\* different set waits for the lock
C11_Witness ==
    /\ \E c, d \in Calls : c # d /\ InReadSection(c) /\ InReadSection(d)
    /\ refresher.pc = "locking"
    /\ refresher.domains # disposableDomains

(***************************************************************************)
(* C12: a refresh tick whose fetch fails leaves the active set as it was   *)
(* and never takes the write lock: the step that ends the failed fetch     *)
(* changes neither the set nor the lock and returns the loop to its wait,  *)
(* and the lock is requested or held by the refresher only after a fetch   *)
(* that succeeded.                                                         *)
(***************************************************************************)
C12_FailedTickKeepsSet ==
    /\ [][refresher.pc = "fetch" /\ refresher'.pc = "wait" =>
             /\ refresher'.err = "fetchErr"
             /\ disposableDomains' = disposableDomains
             /\ mu' = mu
             /\ ~mu.writer /\ ~mu.pending]_vars
    /\ [][refresher.pc = "fetch" /\ refresher'.pc = "lock" =>
             refresher'.err = "nil"]_vars
    /\ [](mu.pending \/ mu.writer =>
             refresher.pc \in {"locking", "assign", "unlock"})

\* a tick has failed while the set held a domain, and a call is answered
\* from that set afterwards
C12_Witness ==
    /\ refresher.pc = "wait" /\ refresher.err = "fetchErr"
    /\ disposableDomains # {}
    /\ \E c \in Calls : local[c].pc = "runlock" /\ local[c].ok

(***************************************************************************)
(* C13: init() completes whatever the first fetch returns: when it fails   *)
(* the set is empty and the loop is started all the same.  No Verify call  *)
(* ever returns or meets the fetch error; a call fails with                *)
(* ErrDisposableEmail only on a hit, and while the set is empty every test *)
(* answers "absent", after which the call goes on with its next enabled    *)
(* stage.                                                                  *)
(***************************************************************************)
C13_InitFetchFailureIsSilent ==
    /\ [][phase = "init" =>
             /\ phase' = "run"
             /\ refresher'.pc = "wait"
             /\ refresher'.err # "nil" => disposableDomains' = {}]_vars
    /\ [](\A c \in Calls :
            /\ call[c].err # "fetchErr"
            /\ \A i \in 1..Len(ops[c]) : ops[c][i].err # "fetchErr"
            /\ call[c].err = "ErrDisposableEmail" => Hit(c)
            /\ local[c].pc = "runlock" /\ disposableDomains = {} => ~local[c].ok
            /\ Miss(c) /\ local[c].pc # "runlock"
                       /\ AfterDisposable(call[c].conf) # "exit" =>
                  \/ local[c].pc = AfterDisposable(call[c].conf)
                  \/ Did(c, AfterDisposable(call[c].conf)))

\* the first fetch has failed and no tick has come yet; a call with
\* BlockDisposable has passed the disposable stage and the NS lookup
C13_Witness ==
    /\ refresher.pc = "wait" /\ refresher.err = "fetchErr"
    /\ disposableDomains = {}
    /\ \E c \in Calls :
          /\ call[c].conf.BlockDisposable /\ Miss(c)
          /\ Passed(c, "ns")
          /\ Returned(c) /\ call[c].ok

(***************************************************************************)
(* One call of src/verifier.go under fair scheduling of the caller: a      *)
(* goroutine blocked in a select goes on once one of its cases is ready.   *)
(* Nothing is assumed of the worker: its network operations may never      *)
(* complete.                                                               *)
(***************************************************************************)
LiveInputs == {<<"a", "@", "a">>}

LiveVerify(c) == VerifyWith(c, LiveInputs, Config, CtxStates)

InitLive == Init /\ impl = "chan"

NextLive ==
    \/ init
    \/ loop
    \/ refreshFetch
    \/ refreshLock
    \/ refreshLocked
    \/ refreshAssign
    \/ refreshUnlock
    \/ \E c \in Single : LiveVerify(c)
    \/ \E c \in Single : ctxDone(c)
    \/ \E c \in Single : VerifySelectDone(c)
    \/ \E c \in Single : VerifySelectRecv(c)
    \/ \E c \in Single : workerParse(c)
    \/ \E c \in Single : workerRLock(c)
    \/ \E c \in Single : workerRead(c)
    \/ \E c \in Single : workerRUnlock(c)
    \/ \E c \in Single : workerLookupNS(c)
    \/ \E c \in Single : workerLookupMX(c)
    \/ \E c \in Single : workerDial(c)
    \/ \E c \in Single : workerMail(c)
    \/ \E c \in Single : workerRcpt(c)
    \/ \E c \in Single : workerExit(c)

SpecLive ==
    /\ InitLive
    /\ [][NextLive]_vars
    /\ \A c \in Single : WF_vars(VerifySelectDone(c) \/ VerifySelectRecv(c))

\* the positions of the worker at a network operation not yet completed
NetPcs == {"ns", "mx", "dial", "mail", "rcpt"}

\* the context, live at the call, is done while Verify waits and the worker
\* is at a network operation
DoneInNetStage(c) ==
    /\ call[c].pc = "select"
    /\ call[c].ctx0 = "live" /\ call[c].ctx # "live"
    /\ local[c].pc \in NetPcs

StopInputs == {<<"a", "@", "a">>, <<"a">>}

\* methods.go has no Config: every stage runs
ObjConf == [ValidateMX |-> TRUE, ValidateSMTP |-> TRUE,
            ValidateDNS |-> TRUE, BlockDisposable |-> TRUE]

InitStop ==
    /\ impl = "obj"
    /\ phase = "init"
    /\ disposableDomains = {}
    /\ mu = [readers |-> {}, writer |-> FALSE, pending |-> FALSE]
    /\ refresher = [pc |-> "off", domains |-> {}, err |-> "nil",
                   list |-> <<>>]
    /\ decoded = <<>>
    /\ call = [c \in Calls |-> NoCall]
    /\ local = [c \in Calls |-> NoLocal]
    /\ ch = [c \in Calls |-> NoChan]
    /\ ops = [c \in Calls |-> <<>>]
    /\ sel = NoSel
    /\ v = NoVerifier

\* New(conf): the ticker and the context are made; with
\* CheckDisposableDomains the list is fetched (an error ends New without a
\* verifier) and the loop goroutine is started.
New ==
    /\ impl = "obj"
    /\ phase = "init"
    /\ \E CheckDisposableDomains \in BOOLEAN :
          IF ~CheckDisposableDomains
          THEN /\ phase' = "run"
               /\ UNCHANGED <<disposableDomains, refresher, decoded>>
          ELSE \E r \in getDisposableDomains(PlainLists) :
                  IF r.err # "nil"
                  THEN /\ phase' = "failed"
                       /\ UNCHANGED <<disposableDomains, refresher, decoded>>
                  ELSE /\ phase' = "run"
                       /\ disposableDomains' = r.domains
                       /\ decoded' = r.list
                       /\ refresher' = [refresher EXCEPT !.pc = "wait"]
    /\ UNCHANGED <<impl, sel, v, mu, call, local, ch, ops>>

\* the ticker fires: tk.C holds at most one tick
tick ==
    /\ impl = "obj"
    /\ phase = "run"
    /\ v.tk < 1
    /\ v' = [v EXCEPT !.tk = 1]
    /\ UNCHANGED <<impl, sel, decoded, phase, disposableDomains, mu, refresher,
                   call,
                   local, ch, ops>>

\* v.cancel() is called: the stop signal of the loop
cancel ==
    /\ impl = "obj"
    /\ phase = "run"
    /\ v.ctx = "live"
    /\ v' = [v EXCEPT !.ctx = "canceled"]
    /\ UNCHANGED <<impl, sel, decoded, phase, disposableDomains, mu, refresher,
                   call,
                   local, ch, ops>>

\* loop(), select, case <-v.ctx.Done(): return
objLoopDone ==
    /\ impl = "obj"
    /\ refresher.pc = "wait"
    /\ v.ctx # "live"
    /\ refresher' = [refresher EXCEPT !.pc = "exited"]
    /\ UNCHANGED <<impl, sel, v, decoded, phase, disposableDomains, mu, call,
                   local,
                   ch, ops>>

\* loop(), select, case <-v.tk.C: v.refresh()
objLoopTick ==
    /\ impl = "obj"
    /\ refresher.pc = "wait"
    /\ v.tk > 0
    /\ v' = [v EXCEPT !.tk = 0]
    /\ refresher' = [refresher EXCEPT !.pc = "fetch", !.err = "nil"]
    /\ UNCHANGED <<impl, sel, decoded, phase, disposableDomains, mu, call,
                   local, ch,
                   ops>>

\* v.Verify(input) is called
objVerify(c) ==
    /\ impl = "obj"
    /\ phase = "run"
    /\ call[c].pc = "idle"
    /\ \E input \in StopInputs :
          call' = [call EXCEPT ![c] = [pc |-> "running", input |-> input,
                                       conf |-> ObjConf, ctx0 |-> "live",
                                       ctx |-> "live", ok |-> FALSE,
                                       err |-> "nil"]]
    /\ local' = [local EXCEPT ![c].pc = "parse"]
    /\ UNCHANGED <<impl, sel, v, decoded, phase, disposableDomains, mu,
                   refresher, ch, ops>>

\* mail.ParseAddress, the LastIndex test and the domain
objParse(c) ==
    /\ impl = "obj"
    /\ local[c].pc = "parse"
    /\ LET err == SyntaxErr(call[c].input)
       IN  /\ Log(c, "parse", err)
           /\ IF err # "nil"
              THEN /\ Return(c, err)
                   /\ local' = [local EXCEPT ![c].pc = "done"]
              ELSE /\ local' = [local EXCEPT ![c].pc = "disposable",
                                  ![c].domain = DomainOf(call[c].input)]
                   /\ UNCHANGED call
    /\ UNCHANGED <<impl, sel, v, decoded, phase, disposableDomains, mu,
                   refresher, ch>>

\* v.mu.RLock()
objRLock(c) ==
    /\ impl = "obj"
    /\ local[c].pc = "disposable"
    /\ ~mu.writer /\ ~mu.pending
    /\ mu' = [mu EXCEPT !.readers = @ \cup {c}]
    /\ local' = [local EXCEPT ![c].pc = "read"]
    /\ UNCHANGED <<impl, sel, v, decoded, phase, disposableDomains, refresher,
                   call, ch, ops>>

\* _, ok := v.disposableDomains[domain]
objRead(c) ==
    /\ impl = "obj"
    /\ local[c].pc = "read"
    /\ LET ok == local[c].domain \in disposableDomains
       IN  /\ local' = [local EXCEPT ![c].pc = "runlock", ![c].ok = ok]
           /\ Log(c, "cache", IF ok THEN "ErrDisposableEmail" ELSE "nil")
    /\ UNCHANGED <<impl, sel, v, decoded, phase, disposableDomains, mu,
                   refresher, call, ch>>

\* v.mu.RUnlock(), then `if ok`
objRUnlock(c) ==
    /\ impl = "obj"
    /\ local[c].pc = "runlock"
    /\ mu' = [mu EXCEPT !.readers = @ \ {c}]
    /\ Continue(c, DisposableErr(local[c].ok), "ns")
    /\ UNCHANGED <<impl, sel, v, decoded, phase, disposableDomains, refresher,
                   ch, ops>>

\* net.LookupNS(domain)
objLookupNS(c) ==
    /\ impl = "obj"
    /\ local[c].pc = "ns"
    /\ \E err \in {"nil", "nsErr"} :
          /\ Log(c, "ns", err)
          /\ Continue(c, err, "mx")
    /\ UNCHANGED <<impl, sel, v, decoded, phase, disposableDomains, mu,
                   refresher, ch>>

\* net.LookupMX(domain), the record count and the host
objLookupMX(c) ==
    /\ impl = "obj"
    /\ local[c].pc = "mx"
    /\ \E lookupErr \in {"nil", "mxErr"}, answer \in MXAnswers :
          LET records == IF lookupErr = "nil" THEN answer ELSE <<>>
              err == MXErr(lookupErr, records)
          IN  /\ lookupErr # "nil" => answer = <<>>
              /\ LogMX(c, err, lookupErr, records)
              /\ IF err # "nil"
                 THEN /\ Return(c, err)
                      /\ local' = [local EXCEPT ![c].pc = "done"]
                 ELSE /\ local' = [local EXCEPT ![c].pc = "dial",
                                     ![c].host = SelectHost(records)]
                      /\ UNCHANGED call
    /\ UNCHANGED <<impl, sel, v, decoded, phase, disposableDomains, mu,
                   refresher, ch>>

\* smtp.Dial(addr); defer client.Close()
objDial(c) ==
    /\ impl = "obj"
    /\ local[c].pc = "dial"
    /\ \E err \in {"nil", "dialErr"} :
          /\ Log(c, "dial", err)
          /\ IF err # "nil"
             THEN /\ Return(c, err)
                  /\ local' = [local EXCEPT ![c].pc = "done"]
             ELSE /\ local' = [local EXCEPT ![c].pc = "mail",
                                 ![c].client = TRUE]
                  /\ UNCHANGED call
    /\ UNCHANGED <<impl, sel, v, decoded, phase, disposableDomains, mu,
                   refresher, ch>>

\* client.Mail(fromEmail); on an error Verify returns and the deferred
\* client.Close() runs
objMail(c) ==
    /\ impl = "obj"
    /\ local[c].pc = "mail"
    /\ \E err \in {"nil", "mailErr"} :
          IF err # "nil"
          THEN /\ ops' = [ops EXCEPT ![c] =
                             @ \o <<[op |-> "mail", err |-> err,
                                     from |-> fromEmail],
                                    [op |-> "close", err |-> "nil"]>>]
               /\ Return(c, err)
               /\ local' = [local EXCEPT ![c].pc = "done", ![c].client = FALSE]
          ELSE /\ LogMail(c, err)
               /\ local' = [local EXCEPT ![c].pc = "rcpt"]
               /\ UNCHANGED call
    /\ UNCHANGED <<impl, sel, v, decoded, phase, disposableDomains, mu,
                   refresher, ch>>

\* client.Rcpt(input); Verify returns and the deferred client.Close() runs
objRcpt(c) ==
    /\ impl = "obj"
    /\ local[c].pc = "rcpt"
    /\ \E err \in {"nil", "rcptErr"} :
          /\ ops' = [ops EXCEPT ![c] =
                        @ \o <<RcptEntry(c, err),
                               [op |-> "close", err |-> "nil"]>>]
          /\ Return(c, err)
    /\ local' = [local EXCEPT ![c].pc = "done", ![c].client = FALSE]
    /\ UNCHANGED <<impl, sel, v, decoded, phase, disposableDomains, mu,
                   refresher, ch>>

NextStop ==
    \/ New
    \/ tick
    \/ cancel
    \/ objLoopDone
    \/ objLoopTick
    \/ refreshFetch
    \/ refreshLock
    \/ refreshLocked
    \/ refreshAssign
    \/ refreshUnlock
    \/ \E c \in Single : objVerify(c)
    \/ \E c \in Single : objParse(c)
    \/ \E c \in Single : objRLock(c)
    \/ \E c \in Single : objRead(c)
    \/ \E c \in Single : objRUnlock(c)
    \/ \E c \in Single : objLookupNS(c)
    \/ \E c \in Single : objLookupMX(c)
    \/ \E c \in Single : objDial(c)
    \/ \E c \in Single : objMail(c)
    \/ \E c \in Single : objRcpt(c)

SpecStop == InitStop /\ [][NextStop]_vars

(***************************************************************************)
(* C15: once the stop signal of the loop is raised (v.ctx cancelled) no    *)
(* further refresh is started, whatever the interleaving of the signal     *)
(* with a pending tick.                                                    *)
(***************************************************************************)
C15_NoRefreshAfterStop ==
    [][v.ctx # "live" => ~(refresher.pc = "wait" /\ refresher'.pc = "fetch")]_vars

(***************************************************************************)
(* The choice of the mail host on its own: the loop over the records of    *)
(* one non-empty MX answer (src/verifier.go:177-185, the same loop in      *)
(* src/unnamed/part_002:129-137)                                           *)
(***************************************************************************)
MaxSel == 3         \* most records in an answer handed to the selection

SelHosts == {"A", "B", "C"}
SelAnswers == SeqsUpTo([Host : SelHosts, Pref : Prefs], MaxSel) \ {<<>>}

InitMX ==
    /\ impl \in {"chan", "ctx"}
    /\ phase = "init"
    /\ disposableDomains = {}
    /\ mu = [readers |-> {}, writer |-> FALSE, pending |-> FALSE]
    /\ refresher = [pc |-> "off", domains |-> {}, err |-> "nil",
                   list |-> <<>>]
    /\ decoded = <<>>
    /\ call = [c \in Calls |-> NoCall]
    /\ local = [c \in Calls |-> NoLocal]
    /\ ch = [c \in Calls |-> NoChan]
    /\ ops = [c \in Calls |-> <<>>]
    /\ sel \in {[records |-> r, host |-> "", done |-> FALSE] : r \in SelAnswers}
    /\ v = NoVerifier

\* the loop over records has run: host is the one the probe will dial
selectHost ==
    /\ ~sel.done
    /\ sel' = [sel EXCEPT !.host = SelectHost(sel.records), !.done = TRUE]
    /\ UNCHANGED <<impl, v, decoded, phase, disposableDomains, mu, refresher,
                   call,
                   local, ch, ops>>

NextMX == selectHost

SpecMX == InitMX /\ [][NextMX]_vars

\* the least preference value among the records
MinPref(records) ==
    CHOOSE p \in {records[i].Pref : i \in 1..Len(records)} :
        \A i \in 1..Len(records) : p <= records[i].Pref

\* the position of the first record that carries the least preference
FirstMin(records) ==
    CHOOSE i \in 1..Len(records) :
        /\ records[i].Pref = MinPref(records)
        /\ \A j \in 1..(i - 1) : records[j].Pref # MinPref(records)

(***************************************************************************)
(* C16: for a non-empty MX answer the host chosen for the SMTP probe is    *)
(* the host of the record with the numerically lowest preference, and      *)
(* among records sharing that preference the one that comes first in the   *)
(* resolver's order.                                                       *)
(***************************************************************************)
C16_LowestPreferenceFirstWins ==
    sel.done => sel.host = sel.records[FirstMin(sel.records)].Host

\* the answer [(A,20), (B,10), (C,10)] selects B
C16_Witness ==
    /\ sel.done
    /\ sel.records = <<[Host |-> "A", Pref |-> 20], [Host |-> "B", Pref |-> 10],
                       [Host |-> "C", Pref |-> 10]>>
    /\ sel.host = "B"

(***************************************************************************)
(* What the MX lookup of a call answered                                   *)
(***************************************************************************)
\* the lookup returned no error and zero records
MXEmpty(c) ==
    \E i \in 1..Len(ops[c]) :
        ops[c][i].op = "mx" /\ ops[c][i].lookupErr = "nil" /\ ops[c][i].empty

\* the lookup returned no error and at least one record
MXRecordsFound(c) ==
    \E i \in 1..Len(ops[c]) :
        ops[c][i].op = "mx" /\ ops[c][i].lookupErr = "nil" /\ ~ops[c][i].empty

\* every stage before the MX lookup is off or has passed
PassedBeforeMX(c) ==
    /\ Passed(c, "parse")
    /\ call[c].conf.BlockDisposable => Miss(c)
    /\ call[c].conf.ValidateDNS => Passed(c, "ns")

\* the operations of the SMTP probe
ProbeOps == {"dial", "setdeadline", "newclient", "mail", "rcpt", "quit",
             "close", "connclose"}

(***************************************************************************)
(* C17: the MX lookup runs only with ValidateMX or ValidateSMTP set and    *)
(* every earlier stage passed; after an answer without error and without   *)
(* records no dial and no SMTP command is issued; Verify returns           *)
(* ErrNoMXRecords only after such an answer.  As stated, Verify returns    *)
(* ErrNoMXRecords after every such answer: C17_NoMXRecordsExactly.         *)
(* Amended: that, or ctx.Err() when the Verify of src/verifier.go takes    *)
(* the ctx.Done() case of its select: C17_NoMXRecordsOnEmptyAnswer.        *)
(***************************************************************************)
C17_NoMXRecordsExactly ==
    \A c \in Calls :
        /\ Did(c, "mx") =>
              /\ call[c].conf.ValidateMX \/ call[c].conf.ValidateSMTP
              /\ PassedBeforeMX(c)
        /\ MXEmpty(c) => OpNames(c) \cap ProbeOps = {}
        /\ Returned(c) => (call[c].err = "ErrNoMXRecords" <=> MXEmpty(c))

C17_NoMXRecordsOnEmptyAnswer ==
    \A c \in Calls :
        /\ Did(c, "mx") =>
              /\ call[c].conf.ValidateMX \/ call[c].conf.ValidateSMTP
              /\ PassedBeforeMX(c)
        /\ MXEmpty(c) => OpNames(c) \cap ProbeOps = {}
        /\ Returned(c) /\ call[c].err = "ErrNoMXRecords" =>
              ~call[c].ok /\ MXEmpty(c)
        /\ Returned(c) /\ MXEmpty(c) =>
              call[c].err = "ErrNoMXRecords" \/ ReturnedCtxErr(c)

\* ValidateSMTP alone: the lookup ran, answered nothing, and the call is
\* over with ErrNoMXRecords
C17_Witness ==
    \E c \in Calls :
        /\ Returned(c) /\ local[c].pc = "done"
        /\ call[c].conf.ValidateSMTP /\ ~call[c].conf.ValidateMX
        /\ MXEmpty(c)
        /\ ~call[c].ok /\ call[c].err = "ErrNoMXRecords"

(***************************************************************************)
(* C18: when the NS lookup, the MX lookup, the dial, MAIL FROM or RCPT TO  *)
(* fails, the error Verify returns is the very value the operation         *)
(* produced, not a sentinel and not a wrapper.  As stated, for every       *)
(* return: C18_OperationErrorReturned.  Amended: that, or ctx.Err() when   *)
(* the Verify of src/verifier.go takes the ctx.Done() case of its select:  *)
(* C18_OperationErrorUnwrapped.                                            *)
(***************************************************************************)
\* the error the operation of a log entry itself produced
Produced(e) == IF e.op = "mx" THEN e.lookupErr ELSE e.err

FailedNetOps(c) ==
    {i \in 1..Len(ops[c]) :
        /\ ops[c][i].op \in {"ns", "mx", "dial", "mail", "rcpt"}
        /\ Produced(ops[c][i]) # "nil"}

Sentinels == {"ErrInvalidSyntax", "ErrDisposableEmail", "ErrNoMXRecords"}

C18_OperationErrorReturned ==
    \A c \in Calls : Returned(c) =>
        \A i \in FailedNetOps(c) : call[c].err = Produced(ops[c][i])

C18_OperationErrorUnwrapped ==
    \A c \in Calls : Returned(c) =>
        \A i \in FailedNetOps(c) :
            \/ ~call[c].ok /\ call[c].err = Produced(ops[c][i])
                           /\ call[c].err \notin Sentinels
            \/ ReturnedCtxErr(c)

\* the MX lookup failed and Verify has returned its error
C18_Witness ==
    \E c \in Calls :
        /\ Returned(c) /\ ~call[c].ok /\ call[c].err = "mxErr"
        /\ \E i \in FailedNetOps(c) : ops[c][i].op = "mx"

(***************************************************************************)
(* C19: stage gating.  The NS lookup is performed exactly when ValidateDNS *)
(* is set (and the earlier stages passed); the MX lookup exactly when      *)
(* ValidateMX or ValidateSMTP is set (and the earlier stages passed), so   *)
(* with ValidateSMTP alone it still runs; the SMTP probe is started (the   *)
(* dial) exactly when ValidateSMTP is set and the MX lookup answered with  *)
(* at least one record, and MAIL and RCPT are issued only inside it.       *)
(***************************************************************************)
\* the pipeline of the call has run to its end
Finished(c) == local[c].pc = "done"

C19_StageGating ==
    \A c \in Calls :
        LET conf == call[c].conf
            beforeNS == Passed(c, "parse") /\ (conf.BlockDisposable => Miss(c))
        IN  /\ Did(c, "ns") => conf.ValidateDNS /\ beforeNS
            /\ Finished(c) /\ conf.ValidateDNS /\ beforeNS => Did(c, "ns")
            /\ Did(c, "mx") =>
                  (conf.ValidateMX \/ conf.ValidateSMTP) /\ PassedBeforeMX(c)
            /\ Finished(c) /\ (conf.ValidateMX \/ conf.ValidateSMTP)
                           /\ PassedBeforeMX(c) => Did(c, "mx")
            /\ Did(c, "dial") => conf.ValidateSMTP /\ MXRecordsFound(c)
            /\ Finished(c) /\ conf.ValidateSMTP /\ MXRecordsFound(c) =>
                  Did(c, "dial")
            /\ Did(c, "mail") => Passed(c, "dial")
            /\ Did(c, "rcpt") => Passed(c, "mail")

\* ValidateSMTP alone: the MX lookup has run and the probe got to RCPT
C19_Witness ==
    \E c \in Calls :
        /\ Finished(c)
        /\ call[c].conf.ValidateSMTP /\ ~call[c].conf.ValidateMX
        /\ ~call[c].conf.ValidateDNS /\ ~Did(c, "ns")
        /\ MXRecordsFound(c) /\ Did(c, "rcpt")

(***************************************************************************)
(* C20: at the moment Verify returns, also when it returns because of a    *)
(* cancellation or a timeout, no stage of that verification is in progress *)
(* or still to be started.                                                 *)
(***************************************************************************)
\* the positions at which a stage is in progress or about to start
StagePcs == {"parse", "disposable", "read", "runlock", "ns", "mx", "dial",
             "setdeadline", "newclient", "mail", "rcpt"}

C20_NoWorkLeftBehind ==
    \A c \in Calls : Returned(c) => local[c].pc \notin StagePcs

(***************************************************************************)
(* C21: in the Verify of src/unnamed/part_002 every network operation of   *)
(* the call (NS lookup, MX lookup, dial, MAIL, RCPT) is bounded by the     *)
(* caller's context: an operation that ends while the context is done,     *)
(* cancelled or past its deadline, ends aborted, that is with an error.    *)
(***************************************************************************)
\* the operations the statement names
BoundedOps == {"ns", "mx", "dial", "mail", "rcpt"}

\* call c completes an operation of BoundedOps in this step
CompletesBoundedOp(c) ==
    /\ Len(ops'[c]) > Len(ops[c])
    /\ ops'[c][Len(ops[c]) + 1].op \in BoundedOps

C21_ContextBoundsEveryOperation ==
    [][\A c \in Calls :
          impl = "ctx" /\ call[c].ctx # "live" /\ CompletesBoundedOp(c) =>
              ops'[c][Len(ops[c]) + 1].err # "nil"]_vars

(***************************************************************************)
(* C22: in the Verify of src/unnamed/part_002, once the SMTP session is    *)
(* established (smtp.NewClient succeeded), whatever MAIL FROM and RCPT TO   *)
(* end with, QUIT is attempted, once and after the last command, before    *)
(* Verify returns; the client is force-closed exactly when QUIT fails; and *)
(* the connection is closed on every path that follows a successful dial.  *)
(***************************************************************************)
CountOp(c, op) == Cardinality({i \in 1..Len(ops[c]) : ops[c][i].op = op})

QuitFailed(c) ==
    \E i \in 1..Len(ops[c]) : ops[c][i].op = "quit" /\ ops[c][i].err # "nil"

C22_SessionAlwaysTerminated ==
    \A c \in Calls : impl = "ctx" =>
        /\ Did(c, "quit") => Passed(c, "newclient")
        /\ Returned(c) /\ Passed(c, "newclient") => CountOp(c, "quit") = 1
        /\ \A i, j \in 1..Len(ops[c]) :
              ops[c][i].op = "quit" /\ IsStageOp(ops[c][j]) => j < i
        /\ Did(c, "close") => QuitFailed(c)
        /\ Returned(c) /\ QuitFailed(c) => CountOp(c, "close") = 1
        /\ Returned(c) /\ Passed(c, "dial") =>
              /\ CountOp(c, "connclose") = 1
              /\ ops[c][Len(ops[c])].op = "connclose"
              /\ ~local[c].conn /\ ~local[c].client

\* RCPT TO was refused, QUIT failed as well, and the call is over
C22_Witness ==
    \E c \in Calls :
        /\ impl = "ctx" /\ Returned(c)
        /\ Passed(c, "mail") /\ call[c].err = "rcptErr"
        /\ QuitFailed(c) /\ Did(c, "close") /\ Did(c, "connclose")

(***************************************************************************)
(* C23: within one Verify call each network operation is issued at most    *)
(* once (one NS lookup, one MX lookup, one dial, one MAIL FROM, one RCPT   *)
(* TO), and a failed operation is never retried: the failed operation is   *)
(* the last stage operation of the call.                                   *)
(***************************************************************************)
C23_AtMostOnceNoRetry ==
    \A c \in Calls :
        /\ \A op \in BoundedOps : CountOp(c, op) <= 1
        /\ \A i \in 1..Len(ops[c]) :
              ops[c][i].op \in BoundedOps /\ ops[c][i].err # "nil" =>
                  \A j \in (i + 1)..Len(ops[c]) : ~IsStageOp(ops[c][j])

\* a call has issued all five operations, the last of which failed
C23_Witness ==
    \E c \in Calls :
        /\ \A op \in BoundedOps : CountOp(c, op) = 1
        /\ Failure(c) = "rcptErr"
        /\ local[c].pc = "done"

(***************************************************************************)
(* The SMTP probe on its own: one call with ValidateSMTP set, for the bare *)
(* address a@a and for the same address written as a name-addr, <a@a>,     *)
(* which mail.ParseAddress accepts as well                                 *)
(***************************************************************************)
ProbeInputs == {<<"a", "@", "a">>, <<"<", "a", "@", "a", ">">>}
ProbeConfigs == {conf \in Config : conf.ValidateSMTP /\ ~conf.ValidateDNS}

ProbeVerify(c) == VerifyWith(c, ProbeInputs, ProbeConfigs, {"live"})
ctxProbeVerify(c) == ctxVerifyWith(c, ProbeInputs, ProbeConfigs, {"live"})

NextProbe ==
    \/ init
    \/ \E c \in Single : ProbeVerify(c)
    \/ \E c \in Single : VerifySelectRecv(c)
    \/ \E c \in Single : workerParse(c)
    \/ \E c \in Single : workerRLock(c)
    \/ \E c \in Single : workerRead(c)
    \/ \E c \in Single : workerRUnlock(c)
    \/ \E c \in Single : workerLookupMX(c)
    \/ \E c \in Single : workerDial(c)
    \/ \E c \in Single : workerMail(c)
    \/ \E c \in Single : workerRcpt(c)
    \/ \E c \in Single : workerExit(c)
    \/ \E c \in Single : ctxProbeVerify(c)
    \/ \E c \in Single : ctxParse(c)
    \/ \E c \in Single : ctxRLock(c)
    \/ \E c \in Single : ctxRead(c)
    \/ \E c \in Single : ctxRUnlock(c)
    \/ \E c \in Single : ctxLookupMX(c)
    \/ \E c \in Single : ctxDial(c)
    \/ \E c \in Single : ctxSetDeadline(c)
    \/ \E c \in Single : ctxNewClient(c)
    \/ \E c \in Single : ctxMail(c)
    \/ \E c \in Single : ctxRcpt(c)
    \/ \E c \in Single : ctxReturn(c)

SpecProbe == Init /\ [][NextProbe]_vars

\* the address under test: the one whose domain part the disposable check
\* and the MX lookup use
AddressUnderTest(c) == ParseAddress(call[c].input).Address

(***************************************************************************)
(* C24: in the SMTP probe MAIL FROM is issued with the fixed sender and    *)
(* before RCPT TO, RCPT TO is issued only after MAIL FROM succeeded, and   *)
(* the recipient given to RCPT TO is the address under test, the address   *)
(* whose domain part was used for the disposable check and the MX lookup.  *)
(***************************************************************************)
C24_MailThenRcptOfTestedAddress ==
    \A c \in Calls :
        \A i \in 1..Len(ops[c]) :
            /\ ops[c][i].op = "mail" => ops[c][i].from = fromEmail
            /\ ops[c][i].op = "rcpt" =>
                  /\ \E j \in 1..(i - 1) :
                        ops[c][j].op = "mail" /\ ops[c][j].err = "nil"
                  /\ ops[c][i].to = AddressUnderTest(c)
                  /\ DomainOf(ops[c][i].to) = local[c].domain

(***************************************************************************)
(* The cache on its own: init and the refresh loop with every decoded list *)
(* over two domains, repetitions included, next to one call that runs the  *)
(* disposable stage only, for an address of either domain                  *)
(***************************************************************************)
CacheInputs == {<<"a", "@", "a">>, <<"a", "@", "b">>}

CacheVerify(c) == VerifyWith(c, CacheInputs, ConcConfigs, {"live"})
ctxCacheVerify(c) == ctxVerifyWith(c, CacheInputs, ConcConfigs, {"live"})

NextCache ==
    \/ initAnyList
    \/ loop
    \/ refreshFetchAnyList
    \/ refreshLock
    \/ refreshLocked
    \/ refreshAssign
    \/ refreshUnlock
    \/ \E c \in Single : CacheVerify(c)
    \/ \E c \in Single : VerifySelectRecv(c)
    \/ \E c \in Single : workerParse(c)
    \/ \E c \in Single : workerRLock(c)
    \/ \E c \in Single : workerRead(c)
    \/ \E c \in Single : workerRUnlock(c)
    \/ \E c \in Single : workerExit(c)
    \/ \E c \in Single : ctxCacheVerify(c)
    \/ \E c \in Single : ctxParse(c)
    \/ \E c \in Single : ctxRLock(c)
    \/ \E c \in Single : ctxRead(c)
    \/ \E c \in Single : ctxRUnlock(c)

SpecCache == Init /\ [][NextCache]_vars

\* d is an element of the list L
ElementOf(d, L) == \E i \in 1..Len(L) : L[i] = d

(***************************************************************************)
(* C25: round trip of fetch and replace.  While the set built from the     *)
(* decoded list L is the active one, installed by init or by a refresh and *)
(* until the next successful replace, a domain d is in the cache exactly   *)
(* when d is an element of L, for every d, and the membership test of a    *)
(* call answers accordingly; repetitions in L make no difference.          *)
(***************************************************************************)
C25_FetchReplaceRoundTrip ==
    /\ \A d \in CacheUniverse :
          d \in disposableDomains <=> ElementOf(d, decoded)
    /\ \A c \in Calls : local[c].pc = "runlock" =>
          (local[c].ok <=> ElementOf(local[c].domain, decoded))
    /\ refresher.pc \in {"lock", "locking", "assign"} =>
          \A d \in CacheUniverse :
              d \in refresher.domains <=> ElementOf(d, refresher.list)

\* the active set comes from the list [a, a]; a test of domain a has
\* answered true
C25_Witness ==
    /\ decoded = <<<<"a">>, <<"a">>>>
    /\ \E c \in Calls :
          local[c].pc = "runlock" /\ local[c].domain = <<"a">> /\ local[c].ok

(***************************************************************************)
(* The cache under fair scheduling: a goroutine that can take its next     *)
(* step takes it.  This holds for the refresher from the return of the     *)
(* fetch (which its 30 s timeout bounds) to mu.Unlock(), and for a call    *)
(* between mu.RLock() and mu.RUnlock().  Nothing is assumed of the ticks   *)
(* and of the arrival of calls.                                            *)
(***************************************************************************)
SpecCacheFair ==
    /\ Init
    /\ [][NextCache]_vars
    /\ WF_vars(refreshFetchAnyList)
    /\ WF_vars(refreshLock)
    /\ WF_vars(refreshLocked)
    /\ WF_vars(refreshAssign)
    /\ WF_vars(refreshUnlock)
    /\ \A c \in Single :
          /\ WF_vars(workerRead(c) \/ workerRUnlock(c))
          /\ WF_vars(ctxRead(c) \/ ctxRUnlock(c))

(***************************************************************************)
(* C26: a failed refresh does not stop the scheduler.  The step that ends  *)
(* a failed fetch puts the loop back to waiting and leaves the set alone;  *)
(* while the loop waits the next tick can always be taken, and taking it   *)
(* enters the fetch again; the set changes only at the assignment of a     *)
(* refresh whose fetch succeeded, where it becomes the set just fetched,   *)
(* and every fetch that succeeded gets to that assignment.                 *)
(***************************************************************************)
C26_FailedTickDoesNotStopLoop ==
    /\ [][refresher.pc = "fetch" /\ refresher'.err # "nil" =>
             /\ refresher'.pc = "wait"
             /\ disposableDomains' = disposableDomains
             /\ decoded' = decoded]_vars
    /\ [](refresher.pc = "wait" => ENABLED loop)
    /\ [][refresher.pc = "wait" /\ refresher' # refresher =>
             refresher'.pc = "fetch"]_vars
    /\ [][disposableDomains' # disposableDomains =>
             \/ phase = "init"
             \/ /\ refresher.pc = "assign"
                /\ refresher.err = "nil"
                /\ disposableDomains' = refresher.domains]_vars
    /\ \A L \in CacheLists :
          (refresher.pc = "lock" /\ refresher.list = L) ~>
              (refresher.pc = "unlock" /\ decoded = L
                                       /\ disposableDomains = DomainSet(L))

\* a tick has failed while the set of the list [a, b] was active: the set
\* is still in force and the loop waits for its next tick
C26_Witness ==
    /\ refresher.pc = "wait" /\ refresher.err = "fetchErr"
    /\ decoded = <<<<"a">>, <<"b">>>>
    /\ disposableDomains = {<<"a">>, <<"b">>}
    /\ ENABLED loop

(***************************************************************************)
(* C27: in every reachable state the active cache is the empty initial set *)
(* or exactly the complete set built from the list of one successful       *)
(* fetch; the variable changes only by being replaced with such a set, in  *)
(* init or at the assignment of a refresh that holds the write lock with   *)
(* no reader inside, so a set readers can see is never modified in place;  *)
(* and no step of a Verify call changes the cache.                         *)
(***************************************************************************)
C27_CacheIsOneFetchedSet ==
    /\ [](disposableDomains = DomainSet(decoded))
    /\ [][disposableDomains' # disposableDomains =>
             /\ \E L \in CacheLists : disposableDomains' = DomainSet(L)
             /\ \/ phase = "init"
                \/ /\ refresher.pc = "assign"
                   /\ disposableDomains' = refresher.domains
                   /\ mu.writer /\ mu.readers = {}]_vars
    /\ [][\A c \in Calls :
             call'[c] # call[c] \/ local'[c] # local[c] \/ ops'[c] # ops[c] =>
                 disposableDomains' = disposableDomains /\ decoded' = decoded]_vars

\* a call found domain a in the cache; a refresh has since replaced the set
\* by that of the list [b], in which a is no more
C27_Witness ==
    /\ refresher.pc = "unlock"
    /\ decoded = <<<<"b">>>> /\ disposableDomains = {<<"b">>}
    /\ \E c \in Calls : local[c].domain = <<"a">> /\ Hit(c)

(***************************************************************************)
(* C28: the refresher does not hold the write lock while it fetches.       *)
(* While the fetch is in progress the lock is neither held nor requested   *)
(* by the refresher, so a call that is at mu.RLock() can take the read     *)
(* lock and a call inside its read section can go on to mu.RUnlock(); the  *)
(* write lock is held only at the assignment and at mu.Unlock(), and the   *)
(* one step the refresher takes while keeping it is the assignment.        *)
(***************************************************************************)
C28_NoLockWhileFetching ==
    /\ [](refresher.pc = "fetch" =>
             /\ ~mu.writer /\ ~mu.pending
             /\ \A c \in Calls :
                   /\ local[c].pc = "disposable" =>
                         ENABLED (workerRLock(c) \/ ctxRLock(c))
                   /\ local[c].pc = "read" =>
                         ENABLED (workerRead(c) \/ ctxRead(c))
                   /\ local[c].pc = "runlock" =>
                         ENABLED (workerRUnlock(c) \/ ctxRUnlock(c)))
    /\ [](mu.writer => refresher.pc \in {"assign", "unlock"})
    /\ [][mu.writer /\ mu'.writer /\ refresher' # refresher =>
             /\ refresher.pc = "assign" /\ refresher'.pc = "unlock"
             /\ disposableDomains' = refresher.domains]_vars

\* the fetch of a refresh is in progress; one call holds the read lock and
\* another has finished its disposable check and returned
C28_Witness ==
    /\ refresher.pc = "fetch"
    /\ \E c, d \in Calls :
          /\ c # d
          /\ local[c].pc = "runlock" /\ c \in mu.readers
          /\ Returned(d) /\ Did(d, "cache")

(***************************************************************************)
(* C29: lock discipline of the cache.  In no reachable state does the      *)
(* refresher hold the write lock while a call is inside its read section;  *)
(* readers do not exclude one another, a call at mu.RLock() enters         *)
(* whenever no writer holds or has requested the lock, however many calls  *)
(* are inside; and a refresh is entered only when the loop is at its wait, *)
(* that is after the refresh before it has returned, so that at most one   *)
(* refresh is in progress.                                                 *)
(***************************************************************************)
\* the positions of the refresher inside refresh()
RefreshPcs == {"fetch", "lock", "locking", "assign", "unlock"}

C29_LockDiscipline ==
    /\ [](\A c \in Calls : ~(mu.writer /\ InReadSection(c)))
    /\ [](mu.writer => mu.readers = {})
    /\ [](\A c \in Calls :
             local[c].pc = "disposable" /\ ~mu.writer /\ ~mu.pending =>
                 ENABLED (workerRLock(c) \/ ctxRLock(c)))
    /\ [][refresher'.pc = "fetch" /\ refresher.pc # "fetch" =>
             refresher.pc = "wait" /\ ~mu.writer /\ ~mu.pending]_vars
    /\ [][refresher.pc \in RefreshPcs /\ refresher'.pc \notin RefreshPcs =>
             refresher'.pc = "wait"]_vars

\* every call is inside its read section at the same time
C29_Witness ==
    /\ \A c \in Calls : InReadSection(c) /\ c \in mu.readers
    /\ Cardinality(mu.readers) = NumCalls
    /\ refresher.pc = "fetch"

(***************************************************************************)
(* Calls that keep arriving: NumCalls callers, each starting a new call    *)
(* whenever its last one is over, with the disposable check followed by    *)
(* the NS lookup, next to the refresh loop.  Fair scheduling: the          *)
(* refresher from mu.Lock() to mu.Unlock() and a call between mu.RLock()   *)
(* and mu.RUnlock() take their next step when they can.  Nothing is        *)
(* assumed of the network: an NS lookup may never complete.                *)
(***************************************************************************)
ArriveInputs == {<<"a", "@", "a">>}
ArriveConfigs == {conf \in Config : /\ conf.BlockDisposable
                                    /\ conf.ValidateDNS
                                    /\ ~conf.ValidateMX
                                    /\ ~conf.ValidateSMTP}

ArriveVerify(c) == VerifyWith(c, ArriveInputs, ArriveConfigs, {"live"})
ctxArriveVerify(c) == ctxVerifyWith(c, ArriveInputs, ArriveConfigs, {"live"})

\* the call of c is over, its worker included: c is free for a further call
callOver(c) ==
    /\ Returned(c)
    /\ local[c].pc = "done"
    /\ call' = [call EXCEPT ![c] = NoCall]
    /\ local' = [local EXCEPT ![c] = NoLocal]
    /\ ch' = [ch EXCEPT ![c] = NoChan]
    /\ ops' = [ops EXCEPT ![c] = <<>>]
    /\ UNCHANGED <<impl, sel, v, decoded, phase, disposableDomains, mu,
                   refresher>>

NextArrive ==
    \/ init
    \/ loop
    \/ refreshFetch
    \/ refreshLock
    \/ refreshLocked
    \/ refreshAssign
    \/ refreshUnlock
    \/ \E c \in Calls : ArriveVerify(c)
    \/ \E c \in Calls : VerifySelectRecv(c)
    \/ \E c \in Calls : workerParse(c)
    \/ \E c \in Calls : workerRLock(c)
    \/ \E c \in Calls : workerRead(c)
    \/ \E c \in Calls : workerRUnlock(c)
    \/ \E c \in Calls : workerLookupNS(c)
    \/ \E c \in Calls : workerExit(c)
    \/ \E c \in Calls : ctxArriveVerify(c)
    \/ \E c \in Calls : ctxParse(c)
    \/ \E c \in Calls : ctxRLock(c)
    \/ \E c \in Calls : ctxRead(c)
    \/ \E c \in Calls : ctxRUnlock(c)
    \/ \E c \in Calls : ctxLookupNS(c)
    \/ \E c \in Calls : callOver(c)

SpecArrive ==
    /\ Init
    /\ [][NextArrive]_vars
    /\ WF_vars(refreshLock)
    /\ WF_vars(refreshLocked)
    /\ WF_vars(refreshAssign)
    /\ WF_vars(refreshUnlock)
    /\ \A c \in Calls :
          /\ WF_vars(workerRead(c) \/ workerRUnlock(c))
          /\ WF_vars(ctxRead(c) \/ ctxRUnlock(c))

(***************************************************************************)
(* C30: readers cannot starve the writer.  Under fair scheduling a refresh *)
(* that has fetched a list and requests the write lock acquires it and     *)
(* installs the set of that list, with calls arriving and reading the      *)
(* cache again and again and with calls waiting in an NS lookup that never *)
(* ends; from the request on no further call enters its read section       *)
(* before the set is installed.                                            *)
(***************************************************************************)
C30_WriterNotStarved ==
    /\ \A L \in PlainLists :
          (refresher.pc = "lock" /\ refresher.list = L) ~>
              (refresher.pc = "assign" /\ mu.writer /\ refresher.list = L)
    /\ \A L \in PlainLists :
          (refresher.pc = "locking" /\ refresher.list = L) ~>
              (refresher.pc = "unlock" /\ decoded = L
                                       /\ disposableDomains = DomainSet(L))
    /\ [](mu.pending => refresher.pc = "locking")
    /\ [][mu.pending => mu'.readers \subseteq mu.readers]_vars

\* the refresher waits for the write lock while one call is inside its read
\* section, another waits in its NS lookup and the set to install differs
\* from the active one
C30_Witness ==
    /\ refresher.pc = "locking" /\ mu.pending
    /\ refresher.domains # disposableDomains
    /\ \E c, d \in Calls :
          /\ c # d
          /\ InReadSection(c)
          /\ local[d].pc = "ns"

(***************************************************************************)
(* The package init() statement by statement, next to the refresh loop and *)
(* NumCalls Verify calls that run the disposable stage.  phase is the      *)
(* position of init(): "init" before the fetch, "fetching" while           *)
(* getDisposableDomains() is in progress, "assigned" once its map is       *)
(* stored, "run" when init() has returned.  Go runs a package's init()     *)
(* to its end before any function of the package can be called from        *)
(* outside, which is why Verify waits for "run".                           *)
(***************************************************************************)
\* initFetch with `go loop()` placed before the fetch
initFetchStartsLoop ==
    /\ phase = "init"
    /\ phase' = "fetching"
    /\ refresher' = [refresher EXCEPT !.pc = "wait"]
    /\ UNCHANGED <<impl, sel, v, decoded, disposableDomains, mu, call, local,
                   ch, ops>>

\* mu and tk are made and getDisposableDomains() is called
initFetch ==
    /\ phase = "init"
    /\ phase' = "fetching"
    /\ UNCHANGED <<impl, sel, v, decoded, disposableDomains, mu, refresher,
                   call, local, ch, ops>>

\* disposableDomains, _ = ...: the call returns and its map is stored, with
\* no lock taken; the error is dropped
initAssign ==
    /\ phase = "fetching"
    /\ \E r \in getDisposableDomains(PlainLists) :
          /\ disposableDomains' = r.domains
          /\ refresher' = [refresher EXCEPT !.err = r.err]
          /\ decoded' = r.list
    /\ phase' = "assigned"
    /\ UNCHANGED <<impl, sel, v, mu, call, local, ch, ops>>

\* go loop(), and init() returns
initGo ==
    /\ phase = "assigned"
    /\ refresher' = [refresher EXCEPT !.pc = "wait"]
    /\ phase' = "run"
    /\ UNCHANGED <<impl, sel, v, decoded, disposableDomains, mu, call, local,
                   ch, ops>>

NextInit ==
    \/ initFetch
    \/ initAssign
    \/ initGo
    \/ loop
    \/ refreshFetch
    \/ refreshLock
    \/ refreshLocked
    \/ refreshAssign
    \/ refreshUnlock
    \/ \E c \in Calls : ConcVerify(c)
    \/ \E c \in Calls : VerifySelectRecv(c)
    \/ \E c \in Calls : workerParse(c)
    \/ \E c \in Calls : workerRLock(c)
    \/ \E c \in Calls : workerRead(c)
    \/ \E c \in Calls : workerRUnlock(c)
    \/ \E c \in Calls : workerExit(c)
    \/ \E c \in Calls : ctxConcVerify(c)
    \/ \E c \in Calls : ctxParse(c)
    \/ \E c \in Calls : ctxRLock(c)
    \/ \E c \in Calls : ctxRead(c)
    \/ \E c \in Calls : ctxRUnlock(c)

SpecInit == Init /\ [][NextInit]_vars

\* nothing but init() runs: the loop is not started, no call has begun and
\* the lock is free
OnlyInitRuns ==
    /\ refresher.pc = "off"
    /\ mu.readers = {} /\ ~mu.writer /\ ~mu.pending
    /\ \A c \in Calls : call[c].pc = "idle" /\ local[c].pc = "none"

\* the result of the initial fetch is in place: the map of the decoded list
\* after a success, the nil map after a failure
InitialResultStored ==
    /\ disposableDomains = DomainSet(decoded)
    /\ refresher.err # "nil" => disposableDomains = {}

(***************************************************************************)
(* C31: initial population is synchronous.  Until init() has returned      *)
(* nothing runs beside it: the refresh loop is not started, no Verify call *)
(* has begun and the lock is free, so the unlocked write of init() has no  *)
(* reader and no refresh beside it.  The loop is started, and the first    *)
(* call made, only after the fetch has ended, with a list or with an       *)
(* error, and its result has been stored.                                  *)
(***************************************************************************)
C31_InitialPopulationIsSynchronous ==
    /\ [](phase # "run" => OnlyInitRuns)
    /\ [][phase = "fetching" /\ phase' # "fetching" =>
             /\ OnlyInitRuns
             /\ phase' = "assigned"
             /\ InitialResultStored']_vars
    /\ [][refresher.pc = "off" /\ refresher'.pc # "off" =>
             /\ phase = "assigned"
             /\ InitialResultStored]_vars
    /\ [][(\E c \in Calls : call[c].pc = "idle" /\ call'[c].pc # "idle") =>
             phase = "run"]_vars
    /\ [][(\E c \in Calls : c \in mu'.readers) \/ refresher'.pc = "fetch" =>
             phase = "run"]_vars

\* the initial fetch failed, the loop waits for its first tick, and a call
\* reads the nil map that init() stored while another has not yet begun
C31_Witness ==
    /\ phase = "run"
    /\ refresher.pc = "wait" /\ refresher.err = "fetchErr"
    /\ disposableDomains = {} /\ decoded = <<>>
    /\ \E c, d \in Calls :
          /\ c # d
          /\ local[c].pc = "runlock" /\ ~local[c].ok
          /\ call[d].pc = "idle"

(***************************************************************************)
(* The worker of src/verifier.go under fair scheduling of its own steps:   *)
(* one call, with an address that parses and one that does not.  A worker  *)
(* that can take a step of its own (the parse, the membership test, the    *)
(* RUnlock, the return with its deferred calls) takes it; nothing is       *)
(* assumed of the network or of the caller.  No tick of the hourly ticker  *)
(* arrives during the call, so the set is the one init() stored.           *)
(***************************************************************************)
WorkerInputs == {<<"a", "@", "a">>, <<"a">>}

WorkerVerify(c) == VerifyWith(c, WorkerInputs, Config, CtxStates)

NextWorker ==
    \/ init
    \/ \E c \in Single : WorkerVerify(c)
    \/ \E c \in Single : ctxDone(c)
    \/ \E c \in Single : VerifySelectDone(c)
    \/ \E c \in Single : VerifySelectRecv(c)
    \/ \E c \in Single : workerParse(c)
    \/ \E c \in Single : workerRLock(c)
    \/ \E c \in Single : workerRead(c)
    \/ \E c \in Single : workerRUnlock(c)
    \/ \E c \in Single : workerLookupNS(c)
    \/ \E c \in Single : workerLookupMX(c)
    \/ \E c \in Single : workerDial(c)
    \/ \E c \in Single : workerMail(c)
    \/ \E c \in Single : workerRcpt(c)
    \/ \E c \in Single : workerExit(c)

SpecWorker ==
    /\ InitLive
    /\ [][NextWorker]_vars
    /\ \A c \in Single :
          /\ WF_vars(workerParse(c))
          /\ WF_vars(workerRead(c))
          /\ WF_vars(workerRUnlock(c))
          /\ WF_vars(workerExit(c))

\* the worker of call c is before or inside a stage: a send may follow
WorkerAtStage(c) == impl = "chan" /\ local[c].pc \in StagePcs

\* the worker of call c puts a value on its channel in this step
Sends(c) == Len(ch'[c].buf) > Len(ch[c].buf)

\* Verify of call c takes a value off the channel in this step
Receives(c) == Len(ch'[c].buf) < Len(ch[c].buf)

(***************************************************************************)
(* C32: the result channel of src/verifier.go.  The worker sends at most   *)
(* one value, the error of the stage that failed, and then closes the      *)
(* channel; whenever a send may come the one-place buffer is empty and the *)
(* channel open, so the send does not block, whether or not Verify is      *)
(* still receiving.  Hence a worker whose stages have finished always      *)
(* hands over and terminates, also after Verify has returned on            *)
(* ctx.Done().  Verify answers (true, nil) exactly when it finds the       *)
(* channel closed with nothing sent, and a received value is the error it  *)
(* returns.                                                                *)
(***************************************************************************)
C32_HandOverNeverBlocks ==
    /\ [](\A c \in Single :
             /\ Len(ch[c].buf) <= 1
             /\ WorkerAtStage(c) => ch[c].buf = <<>> /\ ~ch[c].closed
             /\ ch[c].closed <=> (impl = "chan" /\ local[c].pc = "done")
             /\ local[c].pc = "parse" => ENABLED workerParse(c)
             /\ local[c].pc = "read" => ENABLED workerRead(c)
             /\ local[c].pc = "runlock" => ENABLED workerRUnlock(c)
             /\ local[c].pc = "exit" => ENABLED workerExit(c))
    /\ [][\A c \in Single :
             Sends(c) =>
                 /\ WorkerAtStage(c) /\ local'[c].pc = "exit"
                 /\ Failure(c)' # "nil"
                 /\ ch'[c].buf = <<Failure(c)'>>]_vars
    /\ [][\A c \in Single :
             local[c].pc \in {"exit", "done"} =>
                 /\ ~Sends(c)
                 /\ local'[c].pc \in {"exit", "done"}]_vars
    /\ [][\A c \in Single :
             call[c].pc = "select" /\ call'[c].pc = "returned" =>
                 /\ Receives(c) =>
                       ~call'[c].ok /\ call'[c].err = Head(ch[c].buf)
                 /\ call'[c].ok =>
                       /\ ch[c].closed /\ ch[c].buf = <<>>
                       /\ Failure(c) = "nil" /\ call'[c].err = "nil"]_vars
    /\ \A c \in Single :
          /\ (local[c].pc = "parse" /\ SyntaxErr(call[c].input) # "nil") ~>
                 (local[c].pc = "done" /\ ch[c].closed)
          /\ local[c].pc = "runlock" ~> local[c].pc # "runlock"
          /\ local[c].pc = "exit" ~> (local[c].pc = "done" /\ ch[c].closed)

\* Verify has returned on ctx.Done(); after that its worker failed a stage,
\* put the error into the buffer, closed the channel and ended, and the
\* value stays unreceived
C32_Witness ==
    \E c \in Single :
        /\ Returned(c) /\ ReturnedCtxErr(c)
        /\ local[c].pc = "done"
        /\ ch[c].closed /\ ch[c].buf = <<Failure(c)>>
        /\ Failure(c) # "nil"

(***************************************************************************)
(* C33: a Verify call holds the read lock of the cache for the membership  *)
(* test alone.  A call is among the readers only between its mu.RLock()    *)
(* and its mu.RUnlock(); it holds no lock while it is at an NS lookup, an  *)
(* MX lookup, a dial or an SMTP command, so that a refresh waiting for the *)
(* write lock goes on whenever no call is inside its membership test; and  *)
(* a call that has returned holds no lock.                                 *)
(***************************************************************************)
\* the positions of a call at a network operation, SMTP session included
NetworkPcs == {"ns", "mx", "dial", "setdeadline", "newclient", "mail", "rcpt"}

\* call c holds the read lock for its membership test and nowhere else
HeldForTestOnly(c) ==
    /\ c \in mu.readers <=> InReadSection(c)
    /\ local[c].pc \in NetworkPcs => c \notin mu.readers

\* no call at a network operation stands in the way of a waiting refresh
NetworkWaitFreesWriter ==
    (/\ refresher.pc = "locking"
     /\ \A c \in Calls : ~InReadSection(c)) => ENABLED refreshLocked

C33_ReadLockOnlyForMembershipTest ==
    /\ \A c \in Calls : HeldForTestOnly(c)
    /\ NetworkWaitFreesWriter
    /\ \A c \in Calls : Returned(c) => c \notin mu.readers
====
